---------------------------- MODULE Spec2Model ----------------------------
(***************************************************************************)
(* Model of the HK IPO calendar pipeline (src/hkex_client.py).             *)
(*                                                                         *)
(* Strings the code inspects character by character (stock codes, company  *)
(* names) are sequences of one-character strings.  Dates are day ordinals  *)
(* (positive integers); Python's None for a date is NoDate.  A dictionary  *)
(* key that is absent is the value Missing; a key present with the value   *)
(* None is NoneStr.                                                        *)
(***************************************************************************)
EXTENDS Integers, Sequences, FiniteSets, TLC

VARIABLES
    \* ---- fetch_ipo_calendar
    pc,          \* position inside fetch_ipo_calendar
    use_live,    \* the argument of the call
    items,       \* the local list `items`
    errors,      \* the local list `errors`
    meta,        \* the returned meta dictionary (source, errors)
    result,      \* the returned record list
    calls,       \* history: the sources contacted, in order, with what each did
    \* ---- _dedupe_calendar_items
    dd_pc, dd_in, dd_out,
    \* ---- build_event_index
    ev_pc, ev_items, events,
    \* ---- select_term_sheet
    ts_pc, ts_filings, term_sheet,
    \* ---- fetch_ipo_details
    fl_pc, fl_item, fl_search, candidates, details,
    fl_overrides,  \* what data/overrides.json holds
    fl_log,        \* history: the searches and downloads made, in order
    fl_pdfs,       \* what each document URL leads to when downloaded
    \* ---- one call of a function that only computes: which function, its
    \* arguments and what it returned
    fn_pc, fn_args, fn_result

calVars == <<pc, use_live, items, errors, meta, result, calls>>
ddVars  == <<dd_pc, dd_in, dd_out>>
evVars  == <<ev_pc, ev_items, events>>
tsVars  == <<ts_pc, ts_filings, term_sheet>>
flVars  == <<fl_pc, fl_item, fl_search, candidates, details, fl_overrides, fl_log,
             fl_pdfs>>
fnVars  == <<fn_pc, fn_args, fn_result>>
vars    == <<calVars, ddVars, evVars, tsVars, flVars, fnVars>>

-----------------------------------------------------------------------------
(* Values *)

NoDate == 0
Missing == "<missing>"
NoneStr == "<none>"

Min(a, b) == IF a <= b THEN a ELSE b

RECURSIVE SeqsUpTo(_, _)
SeqsUpTo(S, n) ==
    IF n = 0 THEN {<<>>}
    ELSE LET shorter == SeqsUpTo(S, n - 1)
         IN  shorter \cup {Append(s, x) : s \in {t \in shorter : Len(t) = n - 1}, x \in S}

Truthy(d) == d # NoDate

-----------------------------------------------------------------------------
(* Text helpers *)

Digits == {"0", "1", "2", "3", "4", "5", "6", "7", "8", "9"}
UpperLetters == <<"A", "B", "C", "D", "E", "F", "G", "H", "I", "J", "K", "L", "M",
                  "N", "O", "P", "Q", "R", "S", "T", "U", "V", "W", "X", "Y", "Z">>
LowerLetters == <<"a", "b", "c", "d", "e", "f", "g", "h", "i", "j", "k", "l", "m",
                  "n", "o", "p", "q", "r", "s", "t", "u", "v", "w", "x", "y", "z">>
Whitespace == {" ", "\t", "\n"}

LowerTable ==
    [c \in {UpperLetters[i] : i \in DOMAIN UpperLetters} |->
        LowerLetters[CHOOSE i \in DOMAIN UpperLetters : UpperLetters[i] = c]]

\* str.lower() on one character
LowerChar(c) == IF c \in DOMAIN LowerTable THEN LowerTable[c] ELSE c

LowerSet == {LowerLetters[i] : i \in DOMAIN LowerLetters}

IsAlnumLower(c) == c \in Digits \/ c \in LowerSet

RECURSIVE LStrip(_)
LStrip(s) == IF s # <<>> /\ Head(s) \in Whitespace THEN LStrip(Tail(s)) ELSE s

RECURSIVE RStrip(_)
RStrip(s) ==
    IF s # <<>> /\ s[Len(s)] \in Whitespace THEN RStrip(SubSeq(s, 1, Len(s) - 1)) ELSE s

Strip(s) == RStrip(LStrip(s))

StartsWith(s, p) == Len(s) >= Len(p) /\ SubSeq(s, 1, Len(p)) = p

\* str.replace(p, ""): non-overlapping occurrences, scanning left to right
RECURSIVE Remove(_, _)
Remove(s, p) ==
    IF s = <<>> THEN <<>>
    ELSE IF StartsWith(s, p) THEN Remove(SubSeq(s, Len(p) + 1, Len(s)), p)
    ELSE <<Head(s)>> \o Remove(Tail(s), p)

IsDigit(s) == s # <<>> /\ \A i \in 1..Len(s) : s[i] \in Digits

AllDigits(text) == \A i \in DOMAIN text : text[i] \in Digits

\* the number of consecutive characters of `class` from position i on
RECURSIVE RunLength(_, _, _)
RunLength(text, i, class) ==
    IF i > Len(text) \/ text[i] \notin class THEN 0
    ELSE 1 + RunLength(text, i + 1, class)

\* the decimal value of a digit string
RECURSIVE DecimalValue(_)
DecimalValue(text) ==
    IF text = <<>> THEN 0
    ELSE 10 * DecimalValue(SubSeq(text, 1, Len(text) - 1))
         + (CHOOSE d \in 0..9 : ToString(d) = text[Len(text)])

RECURSIVE StripLeadingZeros(_)
StripLeadingZeros(s) ==
    IF Len(s) > 1 /\ Head(s) = "0" THEN StripLeadingZeros(Tail(s)) ELSE s

RECURSIVE ZeroPad(_, _)
ZeroPad(s, w) == IF Len(s) >= w THEN s ELSE ZeroPad(<<"0">> \o s, w)

CODE_WIDTH == 5

\* f"{int(text):05d}" for an all-digit text
FormatCode(text) == ZeroPad(StripLeadingZeros(text), CODE_WIDTH)

normalize_stock_code(value) ==
    LET text == Strip(value)
    IN  IF text = <<>> \/ text \in {<<"\"">>, <<"-">>} THEN <<>>
        ELSE LET residue == Strip(Remove(Remove(text, <<".", "H", "K">>), <<"H", "K">>))
             IN  IF IsDigit(residue) THEN FormatCode(residue) ELSE residue

RECURSIVE KeepAlnum(_)
KeepAlnum(s) ==
    IF s = <<>> THEN <<>>
    ELSE IF IsAlnumLower(Head(s)) THEN <<Head(s)>> \o KeepAlnum(Tail(s))
    ELSE KeepAlnum(Tail(s))

normalize_company_key(name) == KeepAlnum([i \in 1..Len(name) |-> LowerChar(name[i])])


-----------------------------------------------------------------------------
(* IPO records *)

Acme     == <<"A", "c", "m", "e">>
AcmeLtd  == <<"a", "c", "m", "e", ".">>
Beta     == <<"B", "e", "t", "a">>
Code700  == <<"0", "0", "7", "0", "0">>
Code9988 == <<"0", "9", "9", "8", "8">>

MAIN_URL == "New-Listing-Information/Main-Board"
APP_URL  == "app/appindex.html"

\* keys every adapter's dictionary may or may not carry
BlankRecord ==
    [company |-> <<>>, stock_code |-> <<>>,
     bookbuilding_start |-> NoDate, bookbuilding_end |-> NoDate, trade_date |-> NoDate,
     bookbuilding_type |-> Missing, bookbuilding_label |-> Missing, trade_label |-> Missing,
     announcement_url |-> Missing, prospectus_url |-> Missing, allotment_url |-> Missing,
     company_page_url |-> Missing, source |-> Missing]

\* the dictionary _parse_listing_report builds for one spreadsheet row
ListingReportItem(company, code, prospectus_date, listing_date) ==
    [BlankRecord EXCEPT !.company = company, !.stock_code = normalize_stock_code(code),
                        !.bookbuilding_start = prospectus_date,
                        !.bookbuilding_end = prospectus_date,
                        !.bookbuilding_label = "Prospectus",
                        !.trade_date = listing_date, !.trade_label = "Listing date",
                        !.company_page_url = MAIN_URL]

\* the dictionary _fetch_aastocks_upcoming_calendar builds for one table row
AastocksItem(company, code, book_start, book_end, listing_date) ==
    [BlankRecord EXCEPT !.company = company, !.stock_code = normalize_stock_code(code),
                        !.bookbuilding_start = book_start, !.bookbuilding_end = book_end,
                        !.bookbuilding_label = "Offer period",
                        !.bookbuilding_type = "bookbuilding",
                        !.trade_date = listing_date, !.trade_label = "Listing date",
                        !.company_page_url = MAIN_URL, !.source = "aastocks"]

\* the dictionary _fetch_application_proof_items builds for one feed record
ApplicationProofItem(applicant, posting_date) ==
    [BlankRecord EXCEPT !.company = applicant, !.stock_code = <<>>,
                        !.bookbuilding_start = posting_date,
                        !.bookbuilding_end = posting_date,
                        !.bookbuilding_label = "Application proof",
                        !.bookbuilding_type = "application",
                        !.trade_date = NoDate, !.trade_label = "Listing date",
                        !.company_page_url = APP_URL, !.source = "application-proof"]

\* the dictionary _extract_calendar_from_html builds for one table row
LegacyItem(company, code, book_start, book_end, trade_date) ==
    [BlankRecord EXCEPT !.company = company, !.stock_code = code,
                        !.bookbuilding_start = book_start, !.bookbuilding_end = book_end,
                        !.trade_date = trade_date, !.company_page_url = NoneStr]

-----------------------------------------------------------------------------
(* _dedupe_calendar_items *)

\* faulty variant: the provenance tag takes part in the comparison
DedupeKey_WithSource(item) ==
    <<normalize_stock_code(item.stock_code), item.trade_date, item.bookbuilding_start,
      normalize_company_key(item.company), item.bookbuilding_type, item.source>>

DedupeKey(item) ==
    <<normalize_stock_code(item.stock_code), item.trade_date, item.bookbuilding_start,
      normalize_company_key(item.company), item.bookbuilding_type>>

RECURSIVE DedupeLoop(_, _, _)
DedupeLoop(rest, seen, unique) ==
    IF rest = <<>> THEN unique
    ELSE LET item == Head(rest)
             key  == DedupeKey(item)
         IN  IF key \in seen THEN DedupeLoop(Tail(rest), seen, unique)
             ELSE DedupeLoop(Tail(rest), seen \cup {key}, Append(unique, item))

_dedupe_calendar_items(its) == DedupeLoop(its, {}, <<>>)


-----------------------------------------------------------------------------
(* fetch_ipo_calendar: what the sources can answer *)

RptA == ListingReportItem(Acme, <<"7", "0", "0">>, 1, 3)
RptB == ListingReportItem(Beta, <<"9", "9", "8", "8">>, 2, 4)
AasA == AastocksItem(Acme, <<"0", "0", "7", "0", "0", ".", "H", "K">>, 1, 2, 3)
AasN == AastocksItem(Beta, <<>>, 2, 2, 4)
AppA == ApplicationProofItem(AcmeLtd, 1)
LegA == LegacyItem(Acme, <<"7", "0", "0">>, 1, 2, 3)
SmpA == LegacyItem(Beta, <<"9", "9", "8", "8">>, 1, 1, 2)

ReportResults      == {<<>>, <<RptA>>, <<RptA, RptB, RptA>>}
AastocksResults    == {<<>>, <<AasA>>, <<AasA, AasN>>}
ApplicationResults == {<<>>, <<AppA>>, <<AppA, AppA>>}

\* a call of a source: it raises, or returns one of `results`
Outcomes(results) ==
    [raised : {TRUE}, recs : {<<>>}] \cup [raised : {FALSE}, recs : results]

\* the stock-code-to-document map of _extract_new_listing_documents
DocFor700 ==
    [company |-> Acme, announcement_url |-> "ann-700.pdf",
     prospectus_url |-> NoneStr, allotment_url |-> "allot-700.pdf"]
DocumentMaps == {<<>>, [c \in {Code700} |-> DocFor700]}

\* faulty variant: the value from the document map is always assigned
SetDefault_Overwrites(current, value) == value

\* item.setdefault(key, value): assigns only when the key is absent
SetDefault(current, value) == IF current = Missing THEN value ELSE current

Falsy(text) == text \in {Missing, NoneStr, ""}

AttachOne(item, documents) ==
    LET code == normalize_stock_code(item.stock_code)
    IN  IF code = <<>> \/ code \notin DOMAIN documents THEN item
        ELSE LET doc == documents[code]
             IN  [item EXCEPT
                    !.announcement_url = SetDefault(@, doc.announcement_url),
                    !.prospectus_url = SetDefault(@, doc.prospectus_url),
                    !.allotment_url = SetDefault(@, doc.allotment_url),
                    !.company = IF @ = <<>> THEN doc.company ELSE @,
                    !.company_page_url =
                        IF Falsy(@)
                        THEN IF ~Falsy(doc.prospectus_url) THEN doc.prospectus_url
                             ELSE IF ~Falsy(doc.announcement_url) THEN doc.announcement_url
                             ELSE MAIN_URL
                        ELSE @]

_attach_new_listing_documents(its, documents) ==
    IF DOMAIN documents = {} THEN its
    ELSE [i \in 1..Len(its) |-> AttachOne(its[i], documents)]

\* _fetch_ipo_calendar_hkex: one response per configured URL
LegacyResponses == {"404", "error", "empty", "records"}
LegacyUrlCounts == {1, 2}   \* the default URL, preceded by HKEX_IPO_CALENDAR_URL if set

\* faulty variant: a page without records is returned as an empty list
RECURSIVE LegacyLoop_ReturnsEmpty(_, _)
LegacyLoop_ReturnsEmpty(resps, last_error) ==
    IF resps = <<>> THEN [raised |-> TRUE, recs |-> <<>>]
    ELSE CASE Head(resps) = "404"     -> LegacyLoop_ReturnsEmpty(Tail(resps), "not found")
           [] Head(resps) = "error"   -> [raised |-> TRUE, recs |-> <<>>]
           [] Head(resps) = "records" -> [raised |-> FALSE, recs |-> <<LegA>>]
           [] OTHER                   -> [raised |-> FALSE, recs |-> <<>>]

RECURSIVE LegacyLoop(_, _)
LegacyLoop(resps, last_error) ==
    IF resps = <<>> THEN [raised |-> TRUE, recs |-> <<>>]
    ELSE CASE Head(resps) = "404"     -> LegacyLoop(Tail(resps), "not found")
           [] Head(resps) = "error"   -> [raised |-> TRUE, recs |-> <<>>]
           [] Head(resps) = "records" -> [raised |-> FALSE, recs |-> <<LegA>>]
           [] OTHER                   -> LegacyLoop(Tail(resps), "empty data")

_fetch_ipo_calendar_hkex(resps) == LegacyLoop(resps, NoneStr)

\* load_sample_calendar: the fixture file is absent, well-formed, or unreadable as
\* a JSON array of objects (json.load or normalize_calendar_item raises)
SampleFixtures == {"absent", "records", "malformed"}

load_sample_calendar(fixture) ==
    CASE fixture = "absent"    -> [raised |-> FALSE, recs |-> <<>>]
      [] fixture = "records"   -> [raised |-> FALSE, recs |-> <<SmpA>>]
      [] OTHER                 -> [raised |-> TRUE, recs |-> <<>>]

FailureMessage(src) ==
    CASE src = "report"            -> "HKEX new listing report fetch failed"
      [] src = "aastocks"          -> "AASTOCKS upcoming IPO fetch failed"
      [] src = "application-proof" -> "HKEX application proof fetch failed"
      [] src = "documents"         -> "HKEX new listing document fetch failed"
      [] OTHER                     -> "HKEX calendar fetch failed"


-----------------------------------------------------------------------------
(* fetch_ipo_calendar, one action per source it contacts *)

\* faulty variant: a failing adapter discards what the earlier adapters delivered
ExtendItems_ResetOnFailure(its, out) == IF out.raised THEN <<>> ELSE its \o out.recs

\* items.extend(adapter()) inside try / except
ExtendItems(its, out) == IF out.raised THEN its ELSE its \o out.recs

\* faulty variant: the except branch assigns the list instead of appending to it
RecordFailure_Overwrites(errs, out, src) ==
    IF out.raised THEN <<FailureMessage(src)>> ELSE errs

\* errors.append(...) in the except branch
RecordFailure(errs, out, src) ==
    IF out.raised THEN Append(errs, FailureMessage(src)) ELSE errs

Logged(src, out) == [src |-> src, raised |-> out.raised, recs |-> out.recs]

\* faulty variant: the legacy endpoint is tried whatever the adapters delivered
AfterAdapters_AlwaysLegacy(its) == "legacy"

\* `if items:` after the three adapters: fetch the document map, else go on
AfterAdapters(its) == IF its # <<>> THEN "documents" ELSE "legacy"

Meta(source, errs) == [source |-> source, errors |-> errs]

NoMeta == Meta(NoneStr, <<>>)

CalIdle ==
    /\ pc = "idle" /\ use_live = FALSE /\ items = <<>> /\ errors = <<>>
    /\ meta = NoMeta /\ result = <<>> /\ calls = <<>>

Call ==
    /\ pc = "idle"
    /\ \E live \in BOOLEAN :
         /\ use_live' = live
         /\ pc' = IF live THEN "report" ELSE "sample"
    /\ items' = <<>>
    /\ errors' = <<>>
    /\ UNCHANGED <<meta, result, calls>>
    /\ UNCHANGED <<ddVars, evVars, tsVars, flVars, fnVars>>

FetchNewListingReport ==
    /\ pc = "report"
    /\ \E out \in Outcomes(ReportResults) :
         /\ items' = ExtendItems(items, out)
         /\ errors' = RecordFailure(errors, out, "report")
         /\ calls' = Append(calls, Logged("report", out))
    /\ pc' = "aastocks"
    /\ UNCHANGED <<use_live, meta, result>>
    /\ UNCHANGED <<ddVars, evVars, tsVars, flVars, fnVars>>

FetchAastocks ==
    /\ pc = "aastocks"
    /\ \E out \in Outcomes(AastocksResults) :
         /\ items' = ExtendItems(items, out)
         /\ errors' = RecordFailure(errors, out, "aastocks")
         /\ calls' = Append(calls, Logged("aastocks", out))
    /\ pc' = "application-proof"
    /\ UNCHANGED <<use_live, meta, result>>
    /\ UNCHANGED <<ddVars, evVars, tsVars, flVars, fnVars>>

FetchApplicationProof ==
    /\ pc = "application-proof"
    /\ \E out \in Outcomes(ApplicationResults) :
         /\ items' = ExtendItems(items, out)
         /\ errors' = RecordFailure(errors, out, "application-proof")
         /\ calls' = Append(calls, Logged("application-proof", out))
    /\ pc' = AfterAdapters(items')
    /\ UNCHANGED <<use_live, meta, result>>
    /\ UNCHANGED <<ddVars, evVars, tsVars, flVars, fnVars>>

\* lines 270-278: the document map, the deduplication and the first return
AttachAndDedupe ==
    /\ pc = "documents"
    /\ \E out \in [raised : {TRUE}, recs : {<<>>}] \cup [raised : {FALSE}, recs : DocumentMaps] :
         LET attached == IF out.raised THEN items
                         ELSE _attach_new_listing_documents(items, out.recs)
             unique   == _dedupe_calendar_items(attached)
             errs     == RecordFailure(errors, out, "documents")
         IN  /\ items' = unique
             /\ errors' = errs
             /\ calls' = Append(calls, [src |-> "documents", raised |-> out.raised,
                                        recs |-> <<>>])
             /\ IF unique # <<>>
                THEN /\ pc' = "returned"
                     /\ result' = unique
                     /\ meta' = Meta("hkex-news", errs)
                ELSE /\ pc' = "legacy"
                     /\ UNCHANGED <<result, meta>>
    /\ UNCHANGED use_live
    /\ UNCHANGED <<ddVars, evVars, tsVars, flVars, fnVars>>

\* lines 279-285: the legacy calendar endpoint
FetchLegacy ==
    /\ pc = "legacy"
    /\ \E n \in LegacyUrlCounts : \E resps \in [1..n -> LegacyResponses] :
         LET out == _fetch_ipo_calendar_hkex(resps)
         IN  /\ calls' = Append(calls, Logged("legacy", out))
             /\ IF ~out.raised /\ out.recs # <<>>
                THEN /\ pc' = "returned"
                     /\ items' = out.recs
                     /\ result' = out.recs
                     /\ meta' = Meta("hkex", errors)
                     /\ UNCHANGED errors
                ELSE /\ pc' = "sample"
                     /\ items' = IF out.raised THEN items ELSE out.recs
                     /\ errors' = IF out.raised
                                  THEN Append(errors, FailureMessage("legacy"))
                                  ELSE Append(errors, "HKEX calendar returned empty data")
                     /\ UNCHANGED <<result, meta>>
    /\ UNCHANGED use_live
    /\ UNCHANGED <<ddVars, evVars, tsVars, flVars, fnVars>>

\* line 286: the sample fixture, outside every try block
LoadSample ==
    /\ pc = "sample"
    /\ \E fixture \in SampleFixtures :
         LET out == load_sample_calendar(fixture)
         IN  /\ calls' = Append(calls, Logged("sample", out))
             /\ IF out.raised
                THEN /\ pc' = "raised"
                     /\ UNCHANGED <<result, meta>>
                ELSE /\ pc' = "returned"
                     /\ result' = out.recs
                     /\ meta' = Meta("sample", errors)
    /\ UNCHANGED <<use_live, items, errors>>
    /\ UNCHANGED <<ddVars, evVars, tsVars, flVars, fnVars>>

DdIdle == dd_pc = "off" /\ dd_in = <<>> /\ dd_out = <<>>
EvIdle == ev_pc = "off" /\ ev_items = <<>> /\ events = <<>>
TsIdle == ts_pc = "off" /\ ts_filings = <<>> /\ term_sheet = <<>>
FlIdle ==
    /\ fl_pc = "off" /\ fl_item = BlankRecord /\ fl_search = <<>>
    /\ candidates = <<>> /\ details = <<>>
    /\ fl_overrides = <<>> /\ fl_log = <<>> /\ fl_pdfs = <<>>

FnIdle == fn_pc = "off" /\ fn_args = <<>> /\ fn_result = <<>>

InitCalendar == CalIdle /\ DdIdle /\ EvIdle /\ TsIdle /\ FlIdle /\ FnIdle

NextCalendar ==
    \/ Call
    \/ FetchNewListingReport
    \/ FetchAastocks
    \/ FetchApplicationProof
    \/ AttachAndDedupe
    \/ FetchLegacy
    \/ LoadSample

SpecCalendar == InitCalendar /\ [][NextCalendar]_vars


-----------------------------------------------------------------------------
(* Claims about fetch_ipo_calendar *)

LiveSources == {"report", "aastocks", "application-proof", "legacy"}
AdapterSources == {"report", "aastocks", "application-proof"}

Contacted(src) == \E i \in DOMAIN calls : calls[i].src = src
Raised(src) == \E i \in DOMAIN calls : calls[i].src = src /\ calls[i].raised
ReturnedRecords(src) ==
    \E i \in DOMAIN calls : calls[i].src = src /\ ~calls[i].raised /\ calls[i].recs # <<>>

IsLive(c) == c.src # "sample"
IsAdapter(c) == c.src \in AdapterSources
LiveCalls == SelectSeq(calls, IsLive)
AdapterCalls == SelectSeq(calls, IsAdapter)

\* the records the adapters returned, in the order the adapters ran
RECURSIVE Concat(_)
Concat(cs) == IF cs = <<>> THEN <<>> ELSE Head(cs).recs \o Concat(Tail(cs))
Merged == Concat(AdapterCalls)

\* one advisory per live call that did not deliver, in call order
RECURSIVE Advisories(_)
Advisories(cs) ==
    IF cs = <<>> THEN <<>>
    ELSE LET c == Head(cs)
         IN  (IF c.raised THEN <<FailureMessage(c.src)>>
              ELSE IF c.src = "legacy" /\ c.recs = <<>>
                   THEN <<"HKEX calendar returned empty data">>
              ELSE <<>>) \o Advisories(Tail(cs))

Finished == pc \in {"returned", "raised"}
AllLiveFailed == \A src \in LiveSources : Raised(src)

\* C1: when use_live is true and the three adapters and the legacy calendar
\* endpoint each raise (the sample fixture itself being loadable), the call
\* returns meta.source = "sample" and a non-empty meta.errors holding exactly one
\* entry per failed source, in the order the sources were tried.
C1_AllLiveSourcesFail ==
    (Finished /\ use_live /\ AllLiveFailed /\ ~Raised("sample")) =>
        /\ pc = "returned"
        /\ meta.source = "sample"
        /\ meta.errors # <<>>
        /\ [i \in DOMAIN LiveCalls |-> LiveCalls[i].src]
             = <<"report", "aastocks", "application-proof", "legacy">>
        /\ meta.errors = [i \in DOMAIN LiveCalls |-> FailureMessage(LiveCalls[i].src)]

C1_Witness ==
    pc = "returned" /\ use_live /\ AllLiveFailed /\ Len(meta.errors) = 4

\* C2: whatever the adapters, the document-map fetch, the legacy fetch and the
\* sample-fixture load do, fetch_ipo_calendar returns normally: no failure
\* reaches the caller.
C2_NeverPropagates == pc # "raised"

\* C3: meta.source is "hkex-news" exactly when the merged, deduplicated adapter
\* output is non-empty; the legacy endpoint is contacted only when that list is
\* empty, and meta.source is "hkex" exactly when the legacy fetch then returns
\* records; otherwise meta.source is "sample"; with use_live false nothing is
\* contacted and errors is empty.
C3_FallbackOrder ==
    LET merged == _dedupe_calendar_items(Merged)
    IN  /\ Contacted("legacy") => (use_live /\ merged = <<>>)
        /\ pc = "returned" =>
             /\ meta.source \in {"hkex-news", "hkex", "sample"}
             /\ meta.source = "hkex-news" <=> (use_live /\ merged # <<>>)
             /\ meta.source = "hkex" <=> ReturnedRecords("legacy")
             /\ ~use_live => (LiveCalls = <<>> /\ meta.errors = <<>>
                              /\ meta.source = "sample")

C3_Witness ==
    /\ pc = "returned" /\ meta.source = "hkex"
    /\ Raised("report") /\ Contacted("legacy")

\* C4: an adapter that raises contributes no record and exactly one advisory and
\* leaves the other adapters' records as they were; an adapter that returns
\* contributes no advisory; the errors returned are all advisories recorded during
\* the call, whichever source tag is returned.
C4_IndependentFailure ==
    /\ pc \in {"aastocks", "application-proof", "documents"} => items = Merged
    /\ errors = Advisories(LiveCalls)
    /\ pc = "returned" => meta.errors = Advisories(LiveCalls)
    /\ Len(Advisories(AdapterCalls))
         = Cardinality({i \in DOMAIN AdapterCalls : AdapterCalls[i].raised})

C4_Witness ==
    /\ pc = "returned" /\ meta.source = "hkex-news"
    /\ Raised("aastocks") /\ ReturnedRecords("report") /\ ReturnedRecords("application-proof")
    /\ meta.errors = <<"AASTOCKS upcoming IPO fetch failed">>
    /\ Len(result) = 3


-----------------------------------------------------------------------------
(* _dedupe_calendar_items on its own *)

MaxDedupeItems == 3

DedupeBase == AastocksItem(Acme, Code700, 1, 1, 3)

\* the base record and records that differ from it in one field
DedupeRecords ==
    { DedupeBase,
      [DedupeBase EXCEPT !.stock_code = <<"7", "0", "0", ".", "H", "K">>],
      [DedupeBase EXCEPT !.stock_code = Code9988],
      [DedupeBase EXCEPT !.stock_code = <<>>],
      [DedupeBase EXCEPT !.trade_date = 4],
      [DedupeBase EXCEPT !.trade_date = NoDate],
      [DedupeBase EXCEPT !.bookbuilding_start = 2],
      [DedupeBase EXCEPT !.company = AcmeLtd],
      [DedupeBase EXCEPT !.company = Beta],
      [DedupeBase EXCEPT !.bookbuilding_type = "application"],
      [DedupeBase EXCEPT !.bookbuilding_type = Missing],
      [DedupeBase EXCEPT !.source = Missing, !.bookbuilding_label = "Prospectus"],
      [DedupeBase EXCEPT !.bookbuilding_end = 2] }

InitDedupe ==
    /\ CalIdle /\ EvIdle /\ TsIdle /\ FlIdle /\ FnIdle
    /\ dd_pc = "start"
    /\ dd_in \in SeqsUpTo(DedupeRecords, MaxDedupeItems)
    /\ dd_out = <<>>

DedupeCalendarItems ==
    /\ dd_pc = "start"
    /\ dd_out' = _dedupe_calendar_items(dd_in)
    /\ dd_pc' = "done"
    /\ UNCHANGED <<dd_in, calVars, evVars, tsVars, flVars, fnVars>>

NextDedupe == DedupeCalendarItems

SpecDedupe == InitDedupe /\ [][NextDedupe]_vars

\* the identity of an offering as section 3 of the specification states it
IdentityTuple(r) ==
    <<normalize_stock_code(r.stock_code), r.trade_date, r.bookbuilding_start,
      normalize_company_key(r.company), r.bookbuilding_type>>

\* positions of the input whose identity tuple no earlier position carries
FirstOccurrences(its) ==
    {i \in DOMAIN its : \A j \in 1..(i - 1) : IdentityTuple(its[j]) # IdentityTuple(its[i])}

\* the k-th smallest element of a set of positions
Nth(P, k) == CHOOSE i \in P : Cardinality({j \in P : j <= i}) = k

\* C5: the deduplicated list holds no two records with the same identity tuple
\* (normalized stock code, trade date, bookbuilding start, normalized company
\* key, bookbuilding type); it is the subsequence of the input made of the first
\* record of each tuple, in input order; no other field takes part.
C5_DedupeKeepsFirst ==
    dd_pc = "done" =>
        LET first == FirstOccurrences(dd_in)
        IN  /\ \A k, l \in DOMAIN dd_out :
                 k # l => IdentityTuple(dd_out[k]) # IdentityTuple(dd_out[l])
            /\ Len(dd_out) = Cardinality(first)
            /\ \A k \in DOMAIN dd_out : dd_out[k] = dd_in[Nth(first, k)]

C5_Witness ==
    /\ dd_pc = "done" /\ Len(dd_in) = 3
    /\ dd_in[1].source # dd_in[2].source
    /\ IdentityTuple(dd_in[1]) = IdentityTuple(dd_in[2])
    /\ IdentityTuple(dd_in[1]) # IdentityTuple(dd_in[3])
    /\ dd_out = <<dd_in[1], dd_in[3]>>


-----------------------------------------------------------------------------
(* build_event_index *)

\* item.get(key, default)
GetOr(value, default) == IF value = Missing THEN default ELSE value

\* events.setdefault(day, []).append(event)
AppendEvent(ev, day, e) ==
    IF day \in DOMAIN ev THEN [ev EXCEPT ![day] = Append(@, e)]
    ELSE [d \in DOMAIN ev \cup {day} |-> IF d = day THEN <<e>> ELSE ev[d]]

\* faulty variant: the loop stops before the last day of the window
RECURSIVE WindowLoop_Exclusive(_, _, _, _)
WindowLoop_Exclusive(ev, current, book_end, e) ==
    IF current < book_end
    THEN WindowLoop_Exclusive(AppendEvent(ev, current, e), current + 1, book_end, e)
    ELSE ev

\* while current <= book_end: append; current += timedelta(days=1)
RECURSIVE WindowLoop(_, _, _, _)
WindowLoop(ev, current, book_end, e) ==
    IF current <= book_end
    THEN WindowLoop(AppendEvent(ev, current, e), current + 1, book_end, e)
    ELSE ev

BookEvent(item, ref) ==
    [type |-> GetOr(item.bookbuilding_type, "bookbuilding"),
     label |-> GetOr(item.bookbuilding_label, "Bookbuilding"), item |-> ref]

TradeEvent(item, ref) ==
    [type |-> "trade", label |-> GetOr(item.trade_label, "Trade"), item |-> ref]

\* faulty variant: the trade event is appended before the window's events
EventsOfItem_TradeFirst(ev, item, ref) ==
    LET traded == IF Truthy(item.trade_date)
                  THEN AppendEvent(ev, item.trade_date, TradeEvent(item, ref))
                  ELSE ev
    IN  IF Truthy(item.bookbuilding_start) /\ Truthy(item.bookbuilding_end)
        THEN WindowLoop(traded, item.bookbuilding_start, item.bookbuilding_end,
                        BookEvent(item, ref))
        ELSE traded

\* the body of the loop over items; ref is the position of the record an event
\* refers to
EventsOfItem(ev, item, ref) ==
    LET booked == IF Truthy(item.bookbuilding_start) /\ Truthy(item.bookbuilding_end)
                  THEN WindowLoop(ev, item.bookbuilding_start, item.bookbuilding_end,
                                  BookEvent(item, ref))
                  ELSE ev
    IN  IF Truthy(item.trade_date)
        THEN AppendEvent(booked, item.trade_date, TradeEvent(item, ref))
        ELSE booked

RECURSIVE BuildLoop(_, _, _)
BuildLoop(its, ref, ev) ==
    IF ref > Len(its) THEN ev
    ELSE BuildLoop(its, ref + 1, EventsOfItem(ev, its[ref], ref))

build_event_index(its) == BuildLoop(its, 1, <<>>)

MaxEventItems == 2
MaxDay == 4

EventRecords ==
    { [BlankRecord EXCEPT !.company = Acme, !.bookbuilding_start = s,
                          !.bookbuilding_end = e, !.trade_date = t,
                          !.bookbuilding_type = ty,
                          !.bookbuilding_label = IF ty = Missing THEN Missing
                                                 ELSE "Offer period"]
        : s \in {NoDate, 1, 2}, e \in {NoDate, 1, MaxDay - 1},
          t \in {NoDate, 2, MaxDay}, ty \in {"application", Missing} }

InitEvents ==
    /\ CalIdle /\ DdIdle /\ TsIdle /\ FlIdle /\ FnIdle
    /\ ev_pc = "start"
    /\ ev_items \in SeqsUpTo(EventRecords, MaxEventItems)
    /\ events = <<>>

BuildEventIndex ==
    /\ ev_pc = "start"
    /\ events' = build_event_index(ev_items)
    /\ ev_pc' = "done"
    /\ UNCHANGED <<ev_items, calVars, ddVars, tsVars, flVars, fnVars>>

NextEvents == BuildEventIndex

SpecEvents == InitEvents /\ [][NextEvents]_vars

\* the positions, in one day's sequence, of the events of record ref
EventsAt(day, ref, trade) ==
    IF day \notin DOMAIN events THEN {}
    ELSE {k \in DOMAIN events[day] :
            events[day][k].item = ref /\ ((events[day][k].type = "trade") <=> trade)}

RECURSIVE SumOver(_, _)
SumOver(f, D) ==
    IF D = {} THEN 0
    ELSE LET d == CHOOSE x \in D : TRUE IN f[d] + SumOver(f, D \ {d})

TotalEvents == SumOver([d \in DOMAIN events |-> Len(events[d])], DOMAIN events)

BookCount(ref) ==
    SumOver([d \in DOMAIN events |-> Cardinality(EventsAt(d, ref, FALSE))], DOMAIN events)

TradeCount(ref) ==
    SumOver([d \in DOMAIN events |-> Cardinality(EventsAt(d, ref, TRUE))], DOMAIN events)

HasWindow(r) == r.bookbuilding_start # NoDate /\ r.bookbuilding_end # NoDate

WindowDays(r) ==
    IF HasWindow(r) THEN r.bookbuilding_start .. r.bookbuilding_end ELSE {}

\* C6: per record, exactly one bookbuilding-type event for each calendar day from
\* bookbuilding start through bookbuilding end inclusive when both bounds are
\* present (end - start + 1 events for a window start <= end), exactly one
\* trade-type event when a trade date is present, and nothing else; a record with
\* neither date contributes no event.
C6_EventExpansion ==
    ev_pc = "done" =>
        /\ \A ref \in DOMAIN ev_items :
             LET r == ev_items[ref]
             IN  /\ \A d \in 0..(MaxDay + 1) :
                       /\ Cardinality(EventsAt(d, ref, FALSE))
                            = IF d \in WindowDays(r) THEN 1 ELSE 0
                       /\ Cardinality(EventsAt(d, ref, TRUE))
                            = IF r.trade_date # NoDate /\ d = r.trade_date THEN 1 ELSE 0
                 /\ (HasWindow(r) /\ r.bookbuilding_start <= r.bookbuilding_end)
                       => BookCount(ref) = r.bookbuilding_end - r.bookbuilding_start + 1
                 /\ ~HasWindow(r) => BookCount(ref) = 0
                 /\ TradeCount(ref) = IF r.trade_date # NoDate THEN 1 ELSE 0
        /\ DOMAIN events \subseteq 1..MaxDay
        /\ TotalEvents
             = SumOver([ref \in DOMAIN ev_items |-> BookCount(ref) + TradeCount(ref)],
                       DOMAIN ev_items)
        /\ \A d \in DOMAIN events : \A k \in DOMAIN events[d] :
             events[d][k].item \in DOMAIN ev_items

C6_Witness ==
    /\ ev_pc = "done" /\ Len(ev_items) = 1
    /\ ev_items[1].bookbuilding_start = 1 /\ ev_items[1].bookbuilding_end = 3
    /\ ev_items[1].trade_date = 4
    /\ TotalEvents = 4 /\ BookCount(1) = 3 /\ TradeCount(1) = 1

\* C7: every day of the map has a non-empty sequence; an event under day d refers
\* to a record whose window contains d (non-trade event) or whose trade date is d
\* (trade event); in one day's sequence the events of different records follow
\* the records' input order, and a record's bookbuilding event precedes its trade
\* event.
C7_EventIndexOrder ==
    ev_pc = "done" =>
        \A d \in DOMAIN events :
            /\ events[d] # <<>>
            /\ \A k \in DOMAIN events[d] :
                 LET e == events[d][k]
                     r == ev_items[e.item]
                 IN  IF e.type = "trade" THEN r.trade_date = d
                     ELSE d \in WindowDays(r)
            /\ \A k, l \in DOMAIN events[d] :
                 k < l =>
                   /\ events[d][k].item <= events[d][l].item
                   /\ events[d][k].item = events[d][l].item
                        => (events[d][k].type # "trade" /\ events[d][l].type = "trade")

C7_Witness ==
    /\ ev_pc = "done" /\ Len(ev_items) = 2
    /\ 2 \in DOMAIN events /\ Len(events[2]) = 4
    /\ events[2][1].item = 1 /\ events[2][1].type # "trade"
    /\ events[2][2].item = 1 /\ events[2][2].type = "trade"
    /\ events[2][3].item = 2 /\ events[2][4].type = "trade"


-----------------------------------------------------------------------------
(* Filings and the term-sheet rank *)

TitleApplicationProof == <<"A", "p", "p", "l", "i", "c", "a", "t", "i", "o", "n", " ", "P", "r", "o", "o", "f">>
TitlePhip == <<"P", "H", "I", "P">>
TitleTermSheet == <<"T", "e", "r", "m", " ", "S", "h", "e", "e", "t">>
TitleHearingPack == <<"H", "e", "a", "r", "i", "n", "g", " ", "I", "n", "f", "o", "r", "m", "a", "t", "i", "o", "n", " ", "P", "a", "c", "k">>
TitleOfferingCircular == <<"O", "f", "f", "e", "r", "i", "n", "g", " ", "C", "i", "r", "c", "u", "l", "a", "r">>
TitleProspectus == <<"P", "r", "o", "s", "p", "e", "c", "t", "u", "s">>
TitleAnnouncement == <<"A", "n", "n", "o", "u", "n", "c", "e", "m", "e", "n", "t">>
TitleAllotment == <<"A", "l", "l", "o", "t", "m", "e", "n", "t", " ", "r", "e", "s", "u", "l", "t", "s">>
TitleAnnualReport == <<"A", "n", "n", "u", "a", "l", " ", "R", "e", "p", "o", "r", "t">>
TitleNewListing == <<"N", "e", "w", " ", "l", "i", "s", "t", "i", "n", "g", " ", "a", "n", "n", "o", "u", "n", "c", "e", "m", "e", "n", "t">>

\* faulty variant: both hearing-pack spellings placed before "term sheet"
TERM_SHEET_KEYWORDS_HearingPackSecond ==
    << <<"a", "p", "p", "l", "i", "c", "a", "t", "i", "o", "n", " ", "p", "r", "o", "o", "f">>,
       <<"p", "h", "i", "p">>,
       <<"h", "e", "a", "r", "i", "n", "g", " ", "i", "n", "f", "o", "r", "m", "a", "t", "i", "o", "n", " ", "p", "a", "c", "k">>,
       <<"t", "e", "r", "m", " ", "s", "h", "e", "e", "t">>,
       <<"o", "f", "f", "e", "r", "i", "n", "g", " ", "c", "i", "r", "c", "u", "l", "a", "r">>,
       <<"p", "r", "o", "s", "p", "e", "c", "t", "u", "s">>,
       <<"a", "n", "n", "o", "u", "n", "c", "e", "m", "e", "n", "t">>,
       <<"a", "l", "l", "o", "t", "m", "e", "n", "t", " ", "r", "e", "s", "u", "l", "t", "s">> >>

TERM_SHEET_KEYWORDS ==
    << <<"a", "p", "p", "l", "i", "c", "a", "t", "i", "o", "n", " ", "p", "r", "o", "o", "f">>,
       <<"p", "h", "i", "p">>,
       <<"t", "e", "r", "m", " ", "s", "h", "e", "e", "t">>,
       <<"h", "e", "a", "r", "i", "n", "g", " ", "i", "n", "f", "o", "r", "m", "a", "t", "i", "o", "n", " ", "p", "a", "c", "k">>,
       <<"o", "f", "f", "e", "r", "i", "n", "g", " ", "c", "i", "r", "c", "u", "l", "a", "r">>,
       <<"p", "r", "o", "s", "p", "e", "c", "t", "u", "s">>,
       <<"a", "n", "n", "o", "u", "n", "c", "e", "m", "e", "n", "t">>,
       <<"a", "l", "l", "o", "t", "m", "e", "n", "t", " ", "r", "e", "s", "u", "l", "t", "s">> >>

Filing(title, url, published_date, source) ==
    [title |-> title, url |-> url, published_date |-> published_date, source |-> source]

MatchesAt(text, kw, i) == \A j \in 1..Len(kw) : LowerChar(text[i + j - 1]) = kw[j]

\* kw in text.lower()
LowerContains(text, kw) ==
    \E i \in 1..(Len(text) - Len(kw) + 1) : MatchesAt(text, kw, i)

\* the generator of line 1080: the index (from 0) of the first keyword found in
\* the title, or len(TERM_SHEET_KEYWORDS)
RECURSIVE FirstKeyword(_, _)
FirstKeyword(title, i) ==
    IF i > Len(TERM_SHEET_KEYWORDS) THEN Len(TERM_SHEET_KEYWORDS)
    ELSE IF LowerContains(title, TERM_SHEET_KEYWORDS[i]) THEN i - 1
    ELSE FirstKeyword(title, i + 1)

KeywordRank(title) == FirstKeyword(title, 1)

DATE_MIN_ORDINAL == 1

\* filing.published_date or date.min
DateOrMin(d) == IF d = NoDate THEN DATE_MIN_ORDINAL ELSE d

\* faulty variant: the source is compared before the keyword
_term_sheet_rank_SourceFirst(filing) ==
    << IF filing.source = "hkex-application-proof" THEN 0 ELSE 1,
       KeywordRank(filing.title),
       0 - DateOrMin(filing.published_date) >>

_term_sheet_rank(filing) ==
    << KeywordRank(filing.title),
       IF filing.source = "hkex-application-proof" THEN 0 ELSE 1,
       0 - DateOrMin(filing.published_date) >>

\* Python's ordering of two 3-tuples of integers
TupleLess(a, b) ==
    \/ a[1] < b[1]
    \/ a[1] = b[1] /\ a[2] < b[2]
    \/ a[1] = b[1] /\ a[2] = b[2] /\ a[3] < b[3]

\* Optional[Filing]: the empty sequence is None, <<f>> is the filing f
NoFiling == <<>>

\* min(filings, key=_term_sheet_rank): one pass that keeps the first element of
\* least key
RECURSIVE MinLoop(_, _, _, _)
MinLoop(filings, i, best, bestKey) ==
    IF i > Len(filings) THEN best
    ELSE LET key == _term_sheet_rank(filings[i])
         IN  IF TupleLess(key, bestKey)
             THEN MinLoop(filings, i + 1, i, key)
             ELSE MinLoop(filings, i + 1, best, bestKey)

select_term_sheet(filings) ==
    IF filings = <<>> THEN NoFiling
    ELSE <<filings[MinLoop(filings, 2, 1, _term_sheet_rank(filings[1]))]>>


MaxRankFilings == 2

AllTitles ==
    { TitleApplicationProof, TitlePhip, TitleTermSheet, TitleHearingPack,
      TitleOfferingCircular, TitleProspectus, TitleAnnouncement, TitleAllotment,
      TitleAnnualReport }

RankFilings ==
    { Filing(t, "doc.pdf", d, src) :
        t \in {TitleAnnouncement, TitleProspectus, TitleAnnualReport},
        d \in {NoDate, 2, 3},
        src \in {"hkex-application-proof", "hkexnews"} }
    \cup { Filing(t, "doc.pdf", 2, "hkexnews") : t \in AllTitles }

InitTermSheet ==
    /\ CalIdle /\ DdIdle /\ EvIdle /\ FlIdle /\ FnIdle
    /\ ts_pc = "start"
    /\ ts_filings \in SeqsUpTo(RankFilings, MaxRankFilings)
    /\ term_sheet = NoFiling

SelectTermSheet ==
    /\ ts_pc = "start"
    /\ term_sheet' = select_term_sheet(ts_filings)
    /\ ts_pc' = "done"
    /\ UNCHANGED <<ts_filings, calVars, ddVars, evVars, flVars, fnVars>>

NextTermSheet == SelectTermSheet

SpecTermSheet == InitTermSheet /\ [][NextTermSheet]_vars

Elements(seq) == {seq[i] : i \in DOMAIN seq}

FromApplicationProof(f) == f.source = "hkex-application-proof"

\* f is newer than g; a filing without a date is newer than none
Newer(f, g) ==
    /\ f.published_date # NoDate
    /\ g.published_date = NoDate \/ f.published_date > g.published_date

\* the order the claim states: keyword position, then source, then recency
RanksBefore(f, g) ==
    LET kf == KeywordRank(f.title)
        kg == KeywordRank(g.title)
    IN  \/ kf < kg
        \/ kf = kg /\ FromApplicationProof(f) /\ ~FromApplicationProof(g)
        \/ kf = kg /\ (FromApplicationProof(f) <=> FromApplicationProof(g)) /\ Newer(f, g)

\* C8: candidates are ordered lexicographically by (keyword position, source,
\* recency): an earlier keyword wins whatever the source and date, then an
\* application-proof source wins, then the newer date wins and a missing date
\* is last; select_term_sheet returns a candidate no other candidate ranks
\* before, and no term sheet when there is no candidate.
C8_TermSheetRanking ==
    ts_pc = "done" =>
        /\ \A f, g \in Elements(ts_filings) :
             TupleLess(_term_sheet_rank(f), _term_sheet_rank(g)) <=> RanksBefore(f, g)
        /\ ts_filings = <<>> <=> term_sheet = NoFiling
        /\ ts_filings # <<>> =>
             /\ Len(term_sheet) = 1
             /\ term_sheet[1] \in Elements(ts_filings)
             /\ \A g \in Elements(ts_filings) : ~RanksBefore(g, term_sheet[1])

C8_Witness ==
    /\ ts_pc = "done"
    /\ ts_filings = << Filing(TitleAnnouncement, "doc.pdf", 3, "hkexnews"),
                       Filing(TitleProspectus, "doc.pdf", 2, "hkex-application-proof") >>
    /\ term_sheet = << Filing(TitleProspectus, "doc.pdf", 2, "hkex-application-proof") >>

NamesHearingPack(f) == LowerContains(f.title, <<"h", "e", "a", "r", "i", "n", "g", " ", "i", "n", "f", "o", "r", "m", "a", "t", "i", "o", "n", " ", "p", "a", "c", "k">>)
NamesTermSheet(f) == LowerContains(f.title, <<"t", "e", "r", "m", " ", "s", "h", "e", "e", "t">>)
NamesPhip(f) == LowerContains(f.title, <<"p", "h", "i", "p">>)

\* C9 as stated: a filing whose title names a hearing information pack ranks
\* better, by keyword, than a filing whose title contains "term sheet".
C9_HearingPackBeforeTermSheet ==
    ts_pc = "done" =>
        \A f, g \in Elements(ts_filings) :
            (NamesHearingPack(f) /\ NamesTermSheet(g) /\ ~NamesHearingPack(g))
                => KeywordRank(f.title) < KeywordRank(g.title)

\* the keyword priority of the amended claim, best first
C9_Priority ==
    << <<"a", "p", "p", "l", "i", "c", "a", "t", "i", "o", "n", " ", "p", "r", "o", "o", "f">>,
       <<"p", "h", "i", "p">>,
       <<"t", "e", "r", "m", " ", "s", "h", "e", "e", "t">>,
       <<"h", "e", "a", "r", "i", "n", "g", " ", "i", "n", "f", "o", "r", "m", "a", "t", "i", "o", "n", " ", "p", "a", "c", "k">>,
       <<"o", "f", "f", "e", "r", "i", "n", "g", " ", "c", "i", "r", "c", "u", "l", "a", "r">>,
       <<"p", "r", "o", "s", "p", "e", "c", "t", "u", "s">>,
       <<"a", "n", "n", "o", "u", "n", "c", "e", "m", "e", "n", "t">>,
       <<"a", "l", "l", "o", "t", "m", "e", "n", "t", " ", "r", "e", "s", "u", "l", "t", "s">> >>

C9_Position(f) ==
    LET hits == {i \in DOMAIN C9_Priority : LowerContains(f.title, C9_Priority[i])}
    IN  IF hits = {} THEN Len(C9_Priority) + 1
        ELSE CHOOSE i \in hits : \A j \in hits : i <= j

\* C9 (amended): the keyword priority is, best first: application proof, phip,
\* term sheet, hearing information pack, offering circular, prospectus,
\* announcement, allotment results; a title containing "phip" ranks better than
\* one containing "term sheet", a title that spells out "hearing information
\* pack" without "phip" ranks after one containing "term sheet", and a title
\* matching no keyword ranks after every title that matches one.
C9_KeywordPriority ==
    ts_pc = "done" =>
        \A f, g \in Elements(ts_filings) :
            /\ KeywordRank(f.title) = C9_Position(f) - 1
            /\ C9_Position(f) < C9_Position(g) <=> KeywordRank(f.title) < KeywordRank(g.title)
            /\ (NamesPhip(f) /\ NamesTermSheet(g) /\ C9_Position(g) = 3)
                 => KeywordRank(f.title) < KeywordRank(g.title)
            /\ (C9_Position(f) = 4 /\ C9_Position(g) = 3)
                 => KeywordRank(g.title) < KeywordRank(f.title)
            /\ (C9_Position(f) = Len(C9_Priority) + 1 /\ C9_Position(g) <= Len(C9_Priority))
                 => KeywordRank(g.title) < KeywordRank(f.title)

C9_Witness ==
    /\ ts_pc = "done"
    /\ ts_filings = << Filing(TitleHearingPack, "doc.pdf", 2, "hkexnews"),
                       Filing(TitleTermSheet, "doc.pdf", 2, "hkexnews") >>
    /\ term_sheet = << Filing(TitleTermSheet, "doc.pdf", 2, "hkexnews") >>


-----------------------------------------------------------------------------
(* fetch_ipo_details: the filings of one record *)

\* safe_parse_date on the values the records carry here (lines 98-101): None
\* gives None and a date is returned unchanged
safe_parse_date(value) == IF value = NoDate THEN NoDate ELSE value

Document(title, url, published_date, source) ==
    [title |-> title, url |-> url, published_date |-> published_date, source |-> source]

\* lines 873-885: every attached document that has a url and a title
RECURSIVE DocumentFilings(_)
DocumentFilings(documents) ==
    IF documents = <<>> THEN <<>>
    ELSE LET document == Head(documents)
         IN  IF Falsy(document.url) \/ document.title = <<>>
             THEN DocumentFilings(Tail(documents))
             ELSE << Filing(document.title, document.url,
                            safe_parse_date(document.published_date),
                            IF Falsy(document.source) THEN "hkex-application-proof"
                            ELSE document.source) >>
                  \o DocumentFilings(Tail(documents))

\* lines 886-912: the announcement, prospectus and allotment links
LinkFilings(item) ==
    (IF Falsy(item.announcement_url) THEN <<>>
     ELSE << Filing(TitleNewListing, item.announcement_url,
                    safe_parse_date(item.prospectus_date), "hkexnews") >>)
    \o (IF Falsy(item.prospectus_url) THEN <<>>
        ELSE << Filing(TitleProspectus, item.prospectus_url,
                       safe_parse_date(item.prospectus_date), "hkexnews") >>)
    \o (IF Falsy(item.allotment_url) THEN <<>>
        ELSE << Filing(TitleAllotment, item.allotment_url,
                       safe_parse_date(item.listing_date), "hkexnews") >>)

\* lines 1060-1066: the first filing of every url, in list order
RECURSIVE UniqueLoop(_, _, _)
UniqueLoop(filings, seen, unique) ==
    IF filings = <<>> THEN unique
    ELSE LET filing == Head(filings)
         IN  IF filing.url \in seen
             THEN UniqueLoop(Tail(filings), seen, unique)
             ELSE UniqueLoop(Tail(filings), seen \cup {filing.url}, Append(unique, filing))

\* line 1067: list.sort(key=..., reverse=True) is stable: filings of equal key
\* keep their order. One filing is placed after every filing whose key is not
\* smaller.
InsertNewestFirst(sorted, filing) ==
    LET ahead == Cardinality({i \in DOMAIN sorted :
                     DateOrMin(sorted[i].published_date) >= DateOrMin(filing.published_date)})
    IN  SubSeq(sorted, 1, ahead) \o <<filing>> \o SubSeq(sorted, ahead + 1, Len(sorted))

RECURSIVE SortNewestFirst(_, _)
SortNewestFirst(filings, sorted) ==
    IF filings = <<>> THEN sorted
    ELSE SortNewestFirst(Tail(filings), InsertNewestFirst(sorted, Head(filings)))

\* the last filing of every url, in list order
RECURSIVE KeepLastLoop(_)
KeepLastLoop(filings) ==
    IF filings = <<>> THEN <<>>
    ELSE IF \E i \in 2..Len(filings) : filings[i].url = Head(filings).url
         THEN KeepLastLoop(Tail(filings))
         ELSE <<Head(filings)>> \o KeepLastLoop(Tail(filings))

\* faulty variant: a later filing of the same url replaces the earlier one
_dedupe_filings_KeepLast(filings) == SortNewestFirst(KeepLastLoop(filings), <<>>)

_dedupe_filings(filings) == SortNewestFirst(UniqueLoop(filings, {}, <<>>), <<>>)

\* the search endpoint's extracted filings are deduplicated before they are
\* returned (lines 1022, 1043); an empty company name is not searched
search_hkex_filings(company_name, extracted) ==
    IF company_name = <<>> THEN <<>> ELSE _dedupe_filings(extracted)

\* lines 865-915: the candidate list before it is deduplicated
CandidateFilings(item, extracted) ==
    DocumentFilings(item.application_documents)
    \o LinkFilings(item)
    \o (IF item.company # <<>> THEN search_hkex_filings(item.company, extracted) ELSE <<>>)

\* data/overrides.json as load_overrides finds it: absent, a JSON object, some
\* other JSON value, or not JSON at all
OverridesFile(kind, table) == [kind |-> kind, table |-> table]

\* lines 172-177: the table, or {} when the file is absent or is not an object;
\* json.load raises on a file that is not JSON
load_overrides(file) == IF file.kind = "object" THEN file.table ELSE <<>>

LoadOverridesRaises(file) == file.kind = "malformed"

\* faulty variant: the stock code is looked up before the company key
OverrideKey_CodeFirst(item, overrides) ==
    LET company_key == normalize_company_key(item.company)
        stock_code  == normalize_stock_code(item.stock_code)
    IN  IF stock_code # <<>> /\ stock_code \in DOMAIN overrides THEN <<stock_code>>
        ELSE IF company_key # <<>> /\ company_key \in DOMAIN overrides THEN <<company_key>>
        ELSE <<>>

\* lines 858-863: the first of (company key, stock code) that is non-empty and
\* in the override table; <<>> when neither is
OverrideKey(item, overrides) ==
    LET company_key == normalize_company_key(item.company)
        stock_code  == normalize_stock_code(item.stock_code)
    IN  IF company_key # <<>> /\ company_key \in DOMAIN overrides THEN <<company_key>>
        ELSE IF stock_code # <<>> /\ stock_code \in DOMAIN overrides THEN <<stock_code>>
        ELSE <<>>

\* ---------------------------------------------------------------------------
\* convert_to_usd (src/hkex_client.py 1287-1292)
\* ---------------------------------------------------------------------------

\* a float amount is carried as a whole number of hundredths
AMOUNT_SCALE == 100

\* DEFAULT_FX_USDHKD = 7.80, carried in hundredths
DEFAULT_FX_USDHKD == 780

FX_SCALE == 100

Abs(n) == IF n < 0 THEN 0 - n ELSE n

\* amount / DEFAULT_FX_USDHKD, rounded to the nearest hundredth
DivideByRate(amount) ==
    (2 * amount * FX_SCALE + DEFAULT_FX_USDHKD) \div (2 * DEFAULT_FX_USDHKD)

\* faulty variant: every currency other than USD is converted at the HKD rate
convert_to_usd_ConvertsAll(amount, currency) ==
    IF currency = "USD" THEN amount ELSE DivideByRate(amount)

convert_to_usd(amount, currency) ==
    IF currency = "USD" THEN amount
    ELSE IF currency = "HKD" THEN DivideByRate(amount)
    ELSE amount


-----------------------------------------------------------------------------
(* extract_terms_from_filings (src/hkex_client.py 1088-1179) *)

TERM_SHEET_MAX_PDFS == 3

\* the characters of a URL from its last "." on; any other URL of the model
\* ends in ".pdf"
UrlSuffix(url) ==
    CASE url = "t1.PDF"    -> <<".", "P", "D", "F">>
      [] url = "page.htm"  -> <<".", "h", "t", "m">>
      [] url = "x.pdf?v=1" -> <<".", "p", "d", "f", "?", "v", "=", "1">>
      [] OTHER             -> <<".", "p", "d", "f">>

\* url.lower().endswith(".pdf")
EndsWithPdf(url) ==
    LET suffix == UrlSuffix(url)
    IN  /\ Len(suffix) = 4
        /\ [i \in 1..4 |-> LowerChar(suffix[i])] = <<".", "p", "d", "f">>

\* an Optional value: <<>> is None, <<v>> is the value v
NoValue == <<>>

\* (amount, currency) as _parse_money returns it, the amount in hundredths
Money(amount, currency) == [amount |-> amount, currency |-> currency]

\* what the extractors of lines 1139-1160 find in the text of a document
Facts(offer_price, gross_proceeds, market_cap, valuation_multiple,
      business_model, financial_trend) ==
    [offer_price |-> offer_price, gross_proceeds |-> gross_proceeds,
     market_cap |-> market_cap, valuation_multiple |-> valuation_multiple,
     business_model |-> business_model, financial_trend |-> financial_trend]

TermKeys ==
    {"offer_price", "gross_proceeds", "market_cap", "valuation_multiple",
     "business_model", "financial_trend", "ipo_value_usd", "raise_amount_usd"}

\* lines 1162-1179: the eight fields returned for a document with text
TermsOfText(facts) ==
    [offer_price |-> facts.offer_price,
     gross_proceeds |-> facts.gross_proceeds,
     market_cap |-> facts.market_cap,
     valuation_multiple |-> facts.valuation_multiple,
     business_model |-> facts.business_model,
     financial_trend |-> facts.financial_trend,
     ipo_value_usd |->
        IF facts.market_cap # NoValue
        THEN <<convert_to_usd(facts.market_cap[1].amount, facts.market_cap[1].currency)>>
        ELSE NoValue,
     raise_amount_usd |->
        IF facts.gross_proceeds # NoValue
        THEN <<convert_to_usd(facts.gross_proceeds[1].amount,
                              facts.gross_proceeds[1].currency)>>
        ELSE NoValue]

\* what a download and the parse of its content lead to:
\*   "unavailable"  _download_pdf raises (caught at line 1130)
\*   "empty"        no bytes, or no text on the pages read
\*   "unreadable"   PdfReader raises on the bytes (line 1199)
\*   "bad-number"   float() raises on the matched number text (line 1259)
\*   "text"         the text is read and the extractors find facts
Pdf(kind, facts) == [kind |-> kind, facts |-> facts]

PdfOf(url, pdfs) ==
    IF url \in DOMAIN pdfs THEN pdfs[url] ELSE Pdf("unavailable", <<>>)

\* lines 1125-1179: {} is the empty sequence, a dict of terms is <<terms>>; the
\* exceptions of lines 1199 and 1259 are not caught
extract_terms_from_pdf(url, pdfs) ==
    LET pdf == PdfOf(url, pdfs)
    IN  IF pdf.kind \in {"unreadable", "bad-number"}
        THEN [raised |-> TRUE, terms |-> <<>>]
        ELSE IF pdf.kind = "text"
        THEN [raised |-> FALSE, terms |-> <<TermsOfText(pdf.facts)>>]
        ELSE [raised |-> FALSE, terms |-> <<>>]

\* the dict extracted, a key that is not in it holding NoValue
NoTerms == [key \in TermKeys |-> NoValue]

\* bool(value) of a value that is not None: a float is true unless it is 0.0,
\* a string unless it is empty, a tuple of two always
TruthyValue(key, value) ==
    IF key \in {"ipo_value_usd", "raise_amount_usd"} THEN value # 0
    ELSE IF key \in {"valuation_multiple", "business_model", "financial_trend"}
    THEN value # ""
    ELSE TRUE

ENOUGH_KEYS ==
    {"ipo_value_usd", "raise_amount_usd", "valuation_multiple",
     "business_model", "financial_trend"}

ENOUGH_COUNT == 3

\* the keys of lines 1115-1121 for which terms.get(key) is true
PopulatedKeys(terms) ==
    { key \in ENOUGH_KEYS : terms[key] # NoValue /\ TruthyValue(key, terms[key][1]) }

_has_enough_term_fields(terms) == Cardinality(PopulatedKeys(terms)) >= ENOUGH_COUNT

\* faulty variant: a later value replaces the one already held
MergeTerms_LastWins(extracted, terms) ==
    [key \in TermKeys |-> IF terms[key] = NoValue THEN extracted[key] ELSE terms[key]]

\* lines 1105-1108: setdefault of every value that is not None
MergeTerms(extracted, terms) ==
    [key \in TermKeys |->
        IF terms[key] = NoValue THEN extracted[key]
        ELSE IF extracted[key] # NoValue THEN extracted[key]
        ELSE terms[key]]

\* faulty variant: a download that yields nothing is not remembered
AddChecked_OnlySuccessful(checked, url, terms) ==
    IF terms = <<>> THEN checked ELSE checked \cup {url}

\* line 1101
AddChecked(checked, url, terms) == checked \cup {url}

\* sorted(filings, key=_term_sheet_rank): the key of every filing is computed
\* once; the sort is stable, so a filing goes after every filing of the same
\* or a lower key already placed
RECURSIVE InsertByRank(_, _)
InsertByRank(sorted, keyed) ==
    IF sorted = <<>> THEN <<keyed>>
    ELSE IF TupleLess(keyed.key, Head(sorted).key)
    THEN <<keyed>> \o sorted
    ELSE <<Head(sorted)>> \o InsertByRank(Tail(sorted), keyed)

RECURSIVE SortByRank(_, _)
SortByRank(filings, sorted) ==
    IF filings = <<>> THEN [i \in DOMAIN sorted |-> sorted[i].filing]
    ELSE SortByRank(Tail(filings),
                    InsertByRank(sorted, [key |-> _term_sheet_rank(Head(filings)),
                                          filing |-> Head(filings)]))

\* one download attempt: the filing, the dict before it, what the document
\* yielded, and the dict after the merge
Attempt(filing, before, terms, after) ==
    [filing |-> filing, before |-> before, terms |-> terms, after |-> after]

\* the loop of lines 1093-1110 over the sorted filings; the result carries the
\* dict, the download attempts in order, and whether an exception left the loop
RECURSIVE TermsLoop(_, _, _, _, _)
TermsLoop(filings, pdfs, extracted, checked, attempts) ==
    IF filings = <<>> \/ Cardinality(checked) >= TERM_SHEET_MAX_PDFS
    THEN [extracted |-> extracted, attempts |-> attempts, raised |-> FALSE]
    ELSE LET filing == Head(filings)
             url    == filing.url
         IN  IF Falsy(url) \/ ~EndsWithPdf(url) \/ url \in checked
             THEN TermsLoop(Tail(filings), pdfs, extracted, checked, attempts)
             ELSE LET Step(got) ==
                        LET seen   == AddChecked(checked, url, got.terms)
                            merged == IF got.terms = <<>> THEN extracted
                                      ELSE MergeTerms(extracted, got.terms[1])
                            logged == Append(attempts,
                                             Attempt(filing, extracted, got.terms, merged))
                        IN  IF got.raised
                            THEN [extracted |-> extracted, attempts |-> logged,
                                  raised |-> TRUE]
                            ELSE IF got.terms = <<>>
                            THEN TermsLoop(Tail(filings), pdfs, extracted, seen, logged)
                            ELSE IF _has_enough_term_fields(merged)
                            THEN [extracted |-> merged, attempts |-> logged,
                                  raised |-> FALSE]
                            ELSE TermsLoop(Tail(filings), pdfs, merged, seen, logged)
                  IN  Step(extract_terms_from_pdf(url, pdfs))

extract_terms_from_filings(filings, pdfs) ==
    IF filings = <<>>
    THEN [extracted |-> NoTerms, attempts |-> <<>>, raised |-> FALSE]
    ELSE TermsLoop(SortByRank(filings, <<>>), pdfs, NoTerms, {}, <<>>)


NoFacts == Facts(NoValue, NoValue, NoValue, NoValue, NoValue, NoValue)

\* every document yields little, and a2.pdf cannot be downloaded
StoreSparse ==
    [url \in {"a1.pdf", "a2.pdf", "t1.PDF", "l2.pdf", "l3.pdf"} |->
        CASE url = "a1.pdf" ->
               Pdf("text", Facts(NoValue, NoValue, <<Money(780000, "HKD")>>,
                                 NoValue, NoValue, NoValue))
          [] url = "a2.pdf" -> Pdf("unavailable", <<>>)
          [] url = "t1.PDF" ->
               Pdf("text", Facts(<<Money(1250, "HKD")>>, NoValue, <<Money(500, "USD")>>,
                                 <<"12x">>, NoValue, NoValue))
          [] url = "l2.pdf" -> Pdf("text", NoFacts)
          [] url = "l3.pdf" ->
               Pdf("text", Facts(NoValue, <<Money(78000, "HKD")>>, NoValue,
                                 <<"15x">>, <<"We provide software.">>,
                                 <<"Revenue grew.">>)) ]

\* the first documents yield most fields
StoreRich ==
    [url \in {"a1.pdf", "a2.pdf", "t1.PDF", "l2.pdf", "l3.pdf"} |->
        CASE url = "a1.pdf" ->
               Pdf("text", Facts(<<Money(1000, "USD")>>, <<Money(78000, "HKD")>>,
                                 <<Money(780000, "HKD")>>, NoValue,
                                 <<"We are a bank.">>, NoValue))
          [] url = "a2.pdf" ->
               Pdf("text", Facts(NoValue, NoValue, NoValue, <<"9.5x">>, NoValue,
                                 <<"Profit fell.">>))
          [] url = "l3.pdf" -> Pdf("empty", <<>>)
          [] OTHER ->
               Pdf("text", Facts(NoValue, <<Money(100, "USD")>>, NoValue, <<"20x">>,
                                 <<"Our business is retail.">>, NoValue)) ]

\* amounts of zero, which are values that are not None
StoreZero ==
    [url \in {"a1.pdf", "a2.pdf", "t1.PDF", "l2.pdf", "l3.pdf"} |->
        CASE url = "a1.pdf" ->
               Pdf("text", Facts(NoValue, <<Money(0, "HKD")>>, <<Money(0, "USD")>>,
                                 <<"12x">>, NoValue, NoValue))
          [] url = "a2.pdf" ->
               Pdf("text", Facts(NoValue, <<Money(78000, "HKD")>>, NoValue, NoValue,
                                 NoValue, NoValue))
          [] OTHER ->
               Pdf("text", Facts(NoValue, NoValue, <<Money(500, "USD")>>, NoValue,
                                 <<"We provide software.">>, NoValue)) ]

\* documents that cannot be opened or hold a malformed number
StoreBroken ==
    [url \in {"a1.pdf", "a2.pdf", "t1.PDF", "l2.pdf", "l3.pdf"} |->
        CASE url = "a2.pdf" -> Pdf("unreadable", <<>>)
          [] url = "l3.pdf" -> Pdf("bad-number", <<>>)
          [] url = "a1.pdf" -> Pdf("empty", <<>>)
          [] OTHER ->
               Pdf("text", Facts(NoValue, NoValue, <<Money(500, "USD")>>, NoValue,
                                 NoValue, <<"Revenue grew.">>)) ]

PdfStores == {StoreSparse, StoreRich, StoreZero, StoreBroken}

FILINGS_SHOWN == 6

\* a JSON or spreadsheet value: None, the float NaN, a number (an amount in
\* hundredths) or a text
NoneValue == [kind |-> "none"]
NanValue == [kind |-> "nan"]
NumberValue(amount) == [kind |-> "number", amount |-> amount]
TextValue(text) == [kind |-> "text", text |-> text]

\* the first two decimals of a fraction, rounded on the third
Hundredths(fraction) ==
    LET padded == fraction \o <<"0", "0", "0">>
    IN  DecimalValue(SubSeq(padded, 1, 2))
        + (IF DecimalValue(<<padded[3]>>) >= 5 THEN 1 ELSE 0)

\* float(text) for a text of digits, points and signs: <<>> is ValueError,
\* <<amount>> the value in hundredths
FloatOfText(text) ==
    LET signed   == text # <<>> /\ Head(text) \in {"+", "-"}
        body     == IF signed THEN Tail(text) ELSE text
        whole    == SubSeq(body, 1, RunLength(body, 1, Digits))
        rest     == SubSeq(body, Len(whole) + 1, Len(body))
        pointed  == rest # <<>> /\ Head(rest) = "."
        fraction == IF pointed THEN Tail(rest) ELSE <<>>
        value    == DecimalValue(whole) * AMOUNT_SCALE + Hundredths(fraction)
    IN  IF (rest # <<>> /\ ~pointed) \/ ~AllDigits(fraction)
           \/ (whole = <<>> /\ fraction = <<>>)
        THEN <<>>
        ELSE IF signed /\ Head(text) = "-" THEN <<0 - value>> ELSE <<value>>

\* lines 692-705
_parse_float(value) ==
    IF value.kind \in {"none", "nan"} THEN NoValue
    ELSE IF value.kind = "number" THEN <<value.amount>>
    ELSE LET text == Strip(Remove(value.text, <<",">>))
         IN  IF text = <<>> \/ text = <<"-">> THEN NoValue
             ELSE FloatOfText(text)

\* _parse_float(item.get("funds_raised_hkd")) of line 922
FundsRaised(item) ==
    IF "funds_raised_hkd" \in DOMAIN item THEN _parse_float(item.funds_raised_hkd)
    ELSE NoValue

\* faulty variant: the record's funds raised are preferred to the documents
RaiseAmount_RecordFirst(item, terms) ==
    IF FundsRaised(item) # NoValue
    THEN <<convert_to_usd(FundsRaised(item)[1], "HKD")>>
    ELSE terms.raise_amount_usd

\* lines 920-924
RaiseAmount(item, terms) ==
    IF terms.raise_amount_usd # NoValue THEN terms.raise_amount_usd
    ELSE IF FundsRaised(item) # NoValue
    THEN <<convert_to_usd(FundsRaised(item)[1], "HKD")>>
    ELSE NoValue

\* lines 917 and 926-934: the returned dict
DetailsOf(item, filings, terms) ==
    LET chosen == select_term_sheet(filings)
    IN  [term_sheet_url |-> IF chosen = NoFiling THEN NoneStr ELSE chosen[1].url,
         filings |-> SubSeq(filings, 1, Min(FILINGS_SHOWN, Len(filings))),
         ipo_value_usd |-> terms.ipo_value_usd,
         raise_amount_usd |-> RaiseAmount(item, terms),
         valuation_multiple |-> terms.valuation_multiple,
         business_model |-> terms.business_model,
         financial_trend |-> terms.financial_trend]

\* lines 857-934: what the call returns, the local list `filings` before line
\* 916, what the call asked of the network in order (the filing search of line
\* 915 when the record has a company name, then the downloads of line 918),
\* and whether an exception left it
fetch_ipo_details(item, overrides, extracted, pdfs) ==
    LET key == OverrideKey(item, overrides)
    IN  IF key # <<>>
        THEN [details |-> overrides[key[1]], candidates |-> <<>>, log |-> <<>>,
              raised |-> FALSE]
        ELSE LET candidate_filings == CandidateFilings(item, extracted)
                 filings  == _dedupe_filings(candidate_filings)
                 searched == IF item.company # <<>> THEN <<"search">> ELSE <<>>
                 Finish(got) ==
                    LET log == searched
                               \o [i \in DOMAIN got.attempts |-> got.attempts[i].filing.url]
                    IN  IF got.raised
                        THEN [details |-> <<>>, candidates |-> candidate_filings,
                              log |-> log, raised |-> TRUE]
                        ELSE [details |-> DetailsOf(item, filings, got.extracted),
                              candidates |-> candidate_filings,
                              log |-> log, raised |-> FALSE]
             IN  Finish(extract_terms_from_filings(filings, pdfs))


MaxDocuments == 3
MaxSearchFilings == 2

DocA  == Document(TitleApplicationProof, "a1.pdf", 3, "hkex-application-proof")
DocB  == Document(TitlePhip, "a2.pdf", NoDate, Missing)
DocA2 == Document(TitleHearingPack, "a1.pdf", 2, "hkexnews")
DocUntitled == Document(<<>>, "a3.pdf", 3, "hkex-application-proof")

AttachedDocuments == {DocA, DocB, DocA2, DocUntitled}

SearchFilings ==
    { Filing(TitleAnnualReport, "s1.pdf", 4, "titlesearch"),
      Filing(TitleTermSheet, "s2.pdf", NoDate, "titlesearch"),
      Filing(TitleAnnouncement, "l1.pdf", 3, "titlesearch") }

\* the record handed to fetch_ipo_details; application_documents is [] when the
\* record has none (line 871)
DetailsItem(company, documents, announcement, prospectus, allotment) ==
    [company |-> company, stock_code |-> <<>>,
     prospectus_date |-> 2, listing_date |-> 3,
     announcement_url |-> announcement, prospectus_url |-> prospectus,
     allotment_url |-> allotment, application_documents |-> documents]

OverrideEntry == [term_sheet_url |-> "manual.pdf", filings |-> <<>>]

\* data/overrides.json: one entry, keyed by a company key
OverrideTable == [k \in {<<"b", "e", "t", "a">>} |-> OverrideEntry]

NoDetails == <<>>

InitFilings ==
    /\ CalIdle /\ DdIdle /\ EvIdle /\ TsIdle /\ FnIdle
    /\ fl_pc = "start"
    /\ \/ /\ fl_item = DetailsItem(Beta, <<DocA>>, "l1.pdf", Missing, Missing)
          /\ fl_search = <<>>
       \/ /\ \E documents \in SeqsUpTo(AttachedDocuments, MaxDocuments),
                announcement \in {Missing, "l1.pdf"},
                prospectus \in {NoneStr, "l1.pdf", "l2.pdf"},
                allotment \in {"", "l3.pdf"} :
                \/ /\ fl_item = DetailsItem(<<>>, documents, announcement, prospectus, allotment)
                   /\ fl_search = <<>>
                \/ /\ fl_item = DetailsItem(Acme, documents, announcement, prospectus, allotment)
                   /\ fl_search \in SeqsUpTo(SearchFilings, MaxSearchFilings)
    /\ fl_overrides = OverridesFile("object", OverrideTable)
    /\ fl_pdfs = StoreSparse
    /\ candidates = <<>>
    /\ details = NoDetails
    /\ fl_log = <<>>

FetchIpoDetails ==
    /\ fl_pc = "start"
    /\ IF LoadOverridesRaises(fl_overrides)
       THEN /\ fl_pc' = "raised"
            /\ UNCHANGED <<candidates, details, fl_log>>
       ELSE \E call \in {fetch_ipo_details(fl_item, load_overrides(fl_overrides),
                                            fl_search, fl_pdfs)} :
                /\ candidates' = call.candidates
                /\ details' = IF call.raised THEN details ELSE call.details
                /\ fl_log' = call.log
                /\ fl_pc' = IF call.raised THEN "raised" ELSE "done"
    /\ UNCHANGED <<fl_item, fl_search, fl_overrides, fl_pdfs,
                   calVars, ddVars, evVars, tsVars, fnVars>>

NextFilings == FetchIpoDetails

SpecFilings == InitFilings /\ [][NextFilings]_vars

Assembled == fl_pc = "done" /\ OverrideKey(fl_item, load_overrides(fl_overrides)) = <<>>

CandidateUrls == {candidates[k].url : k \in DOMAIN candidates}

\* the position in the candidate list of the first candidate with this url
FirstWithUrl(url) ==
    CHOOSE k \in DOMAIN candidates :
        /\ candidates[k].url = url
        /\ \A h \in 1..(k - 1) : candidates[h].url # url

Undated(f) == f.published_date = NoDate

\* C10: the filings list has at most 6 entries with pairwise distinct URLs;
\* each entry carries the title, date and source of the first candidate with
\* that URL in assembly order (attached documents, then the announcement,
\* prospectus and allotment links, then search results); entries are ordered
\* newest-first with undated filings last, and filings with equal dates keep
\* their assembly order.
C10_FilingsList ==
    Assembled =>
        LET shown == details.filings
        IN  /\ Len(shown) <= 6
            /\ Len(shown) = Min(6, Cardinality(CandidateUrls))
            /\ candidates = DocumentFilings(fl_item.application_documents)
                              \o LinkFilings(fl_item)
                              \o search_hkex_filings(fl_item.company, fl_search)
            /\ \A i, j \in DOMAIN shown : i < j => shown[i].url # shown[j].url
            /\ \A i \in DOMAIN shown :
                 /\ shown[i].url \in CandidateUrls
                 /\ shown[i] = candidates[FirstWithUrl(shown[i].url)]
            /\ \A i, j \in DOMAIN shown : i < j =>
                 /\ Undated(shown[i]) => Undated(shown[j])
                 /\ ~Undated(shown[j]) => shown[i].published_date >= shown[j].published_date
                 /\ shown[i].published_date = shown[j].published_date
                      => FirstWithUrl(shown[i].url) < FirstWithUrl(shown[j].url)

\* eight candidates with seven URLs: a1.pdf is attached twice with different
\* metadata, six filings are shown and the undated one is cut off
C10_Witness ==
    /\ Assembled
    /\ fl_item = DetailsItem(Acme, <<DocA, DocB, DocA2>>, "l1.pdf", "l2.pdf", "l3.pdf")
    /\ Len(candidates) = 8
    /\ Cardinality(CandidateUrls) = 7
    /\ Len(details.filings) = 6
    /\ details.filings[1].url = "s1.pdf"
    /\ details.filings[2] = Filing(TitleApplicationProof, "a1.pdf", 3, "hkex-application-proof")
    /\ details.filings[3].url = "l3.pdf"
    /\ details.filings[4].url = "l1.pdf"
    /\ details.filings[5].url = "l2.pdf"
    /\ Undated(details.filings[6])

-----------------------------------------------------------------------------
(* fetch_ipo_details: the manual override table *)

KeyAcme  == <<"a", "c", "m", "e">>
Key700   == <<"0", "0", "7", "0", "0">>
KeyEmpty == <<>>

ByCompanyEntry == [term_sheet_url |-> "manual-company.pdf", filings |-> <<>>]
ByCodeEntry    == [term_sheet_url |-> "manual-code.pdf", filings |-> <<>>, business_model |-> "manual"]
ByEmptyEntry   == [term_sheet_url |-> "manual-empty.pdf", filings |-> <<>>]

EntryOf(key) ==
    IF key = KeyAcme THEN ByCompanyEntry
    ELSE IF key = Key700 THEN ByCodeEntry
    ELSE ByEmptyEntry

\* every table over the three keys, the empty table included
OverrideTables == { [k \in keys |-> EntryOf(k)] : keys \in SUBSET {KeyAcme, Key700, KeyEmpty} }

OverrideFiles ==
    { OverridesFile("object", table) : table \in OverrideTables }
    \cup { OverridesFile("absent", <<>>), OverridesFile("array", <<>>),
           OverridesFile("malformed", <<>>) }

Code700Raw == <<"7", "0", "0">>

InitOverrides ==
    /\ CalIdle /\ DdIdle /\ EvIdle /\ TsIdle /\ FnIdle
    /\ fl_pc = "start"
    /\ \E company \in {<<>>, Acme, AcmeLtd, Beta},
          code \in {<<>>, Code700Raw, Code700, Code9988},
          documents \in {<<>>, <<DocA>>} :
          fl_item = [DetailsItem(company, documents, "l1.pdf", Missing, Missing)
                        EXCEPT !.stock_code = code]
    /\ fl_search \in SeqsUpTo(SearchFilings, 1)
    /\ fl_overrides \in OverrideFiles
    /\ fl_pdfs = StoreSparse
    /\ candidates = <<>>
    /\ details = NoDetails
    /\ fl_log = <<>>

SpecOverrides == InitOverrides /\ [][NextFilings]_vars

ManualEntries == {ByCompanyEntry, ByCodeEntry, ByEmptyEntry}

\* C11: when the override table holds the record's non-empty company key, or
\* failing that its non-empty stock code, fetch_ipo_details returns that entry
\* unchanged (the company-key entry first) and nothing has been searched or
\* downloaded; an empty key never matches, so a record matching by neither
\* gets a result assembled from its filings.
C11_OverrideFirst ==
    fl_pc = "done" =>
        LET table       == IF fl_overrides.kind = "object" THEN fl_overrides.table ELSE <<>>
            company_key == normalize_company_key(fl_item.company)
            stock_code  == normalize_stock_code(fl_item.stock_code)
            by_company  == company_key # <<>> /\ company_key \in DOMAIN table
            by_code     == stock_code # <<>> /\ stock_code \in DOMAIN table
        IN  /\ by_company => details = table[company_key] /\ fl_log = <<>>
            /\ (~by_company /\ by_code) => details = table[stock_code] /\ fl_log = <<>>
            /\ (~by_company /\ ~by_code) =>
                 /\ details \notin ManualEntries
                 /\ fl_item.company # <<>> => fl_log # <<>>

\* the table holds both keys of the record and the company-key entry is returned
C11_Witness ==
    /\ fl_pc = "done"
    /\ fl_item.company = AcmeLtd /\ fl_item.stock_code = Code700Raw
    /\ fl_overrides.kind = "object"
    /\ DOMAIN fl_overrides.table = {KeyAcme, Key700, KeyEmpty}
    /\ details = ByCompanyEntry
    /\ fl_log = <<>>

-----------------------------------------------------------------------------
(* _attach_new_listing_documents, called on its own and from fetch_ipo_calendar *)

MaxAttachItems == 2

DocFor700Full ==
    [company |-> Acme, announcement_url |-> "ann-700.pdf",
     prospectus_url |-> "pro-700.pdf", allotment_url |-> NoneStr]

AttachMaps ==
    {<<>>, [c \in {Code700} |-> DocFor700], [c \in {Code700} |-> DocFor700Full]}

AttachRecords ==
    { [BlankRecord EXCEPT !.company = company, !.stock_code = code,
                          !.announcement_url = announcement,
                          !.company_page_url = page] :
        company \in {<<>>, Beta},
        code \in {<<>>, Code700Raw, Code9988},
        announcement \in {Missing, NoneStr, "own-ann.pdf"},
        page \in {"", APP_URL} }

CalOff ==
    /\ pc = "off" /\ use_live = FALSE /\ items = <<>> /\ errors = <<>>
    /\ meta = NoMeta /\ result = <<>> /\ calls = <<>>

InitAttach ==
    /\ DdIdle /\ EvIdle /\ TsIdle /\ FlIdle
    /\ \/ CalIdle /\ FnIdle
       \/ /\ CalOff
          /\ fn_pc = "_attach_new_listing_documents"
          /\ fn_args \in [items : SeqsUpTo(AttachRecords, MaxAttachItems),
                          documents : AttachMaps]
          /\ fn_result = <<>>

AttachNewListingDocuments ==
    /\ fn_pc = "_attach_new_listing_documents"
    /\ fn_result' = _attach_new_listing_documents(fn_args.items, fn_args.documents)
    /\ fn_pc' = "done"
    /\ UNCHANGED <<fn_args, calVars, ddVars, evVars, tsVars, flVars>>

NextAttach ==
    \/ NextCalendar
    \/ AttachNewListingDocuments

SpecAttach == InitAttach /\ [][NextAttach]_vars

UrlKeys == {"announcement_url", "prospectus_url", "allotment_url"}
FilledKeys == UrlKeys \cup {"company", "company_page_url"}

\* what the claim lets one record become, given the entry of its stock code
FilledIn(before, after, doc) ==
    /\ \A k \in UrlKeys :
         after[k] = IF before[k] = Missing THEN doc[k] ELSE before[k]
    /\ after.company = IF before.company = <<>> THEN doc.company ELSE before.company
    /\ ~Falsy(before.company_page_url) => after.company_page_url = before.company_page_url
    /\ Falsy(before.company_page_url) =>
         after.company_page_url \in {doc.prospectus_url, doc.announcement_url, MAIN_URL}
           /\ ~Falsy(after.company_page_url)
    /\ \A k \in (DOMAIN before) \ FilledKeys : after[k] = before[k]
    /\ DOMAIN after = DOMAIN before

\* the call is past line 276: the adapters ran and the map fetch, if any, is over
AdaptersDone ==
    pc \notin {"idle", "off", "report", "aastocks", "application-proof", "documents"}

DocumentAdvisories ==
    Cardinality({i \in DOMAIN errors : errors[i] = "HKEX new listing document fetch failed"})

\* C12: the document map is fetched only when the adapters produced a record;
\* attaching it only fills in: a URL, company name or company page URL already
\* on a record is never changed, a record whose stock code is empty or not in
\* the map is left as it was, and when the map fetch fails every record is
\* unchanged and exactly one advisory is added.
C12_AttachFillsIn ==
    /\ AdaptersDone => (Contacted("documents") <=> Merged # <<>>)
    /\ Raised("documents") =>
         /\ pc = "returned"
         /\ result = _dedupe_calendar_items(Merged)
         /\ \A i \in DOMAIN result : \E j \in DOMAIN Merged : result[i] = Merged[j]
         /\ DocumentAdvisories = 1
    /\ (AdaptersDone /\ ~Raised("documents")) => DocumentAdvisories = 0
    /\ (fn_pc = "done" /\ "documents" \in DOMAIN fn_args) =>
         /\ Len(fn_result) = Len(fn_args.items)
         /\ \A i \in DOMAIN fn_result :
              LET before == fn_args.items[i]
                  code   == normalize_stock_code(before.stock_code)
              IN  IF code = <<>> \/ code \notin DOMAIN fn_args.documents
                  THEN fn_result[i] = before
                  ELSE FilledIn(before, fn_result[i], fn_args.documents[code])

\* a record that already has an announcement URL and a company name, a record
\* without either, both with a stock code in the map, and a second record whose
\* code is not in the map
C12_Witness ==
    /\ fn_pc = "done" /\ "documents" \in DOMAIN fn_args
    /\ fn_args.documents = [c \in {Code700} |-> DocFor700Full]
    /\ Len(fn_args.items) = 2
    /\ fn_args.items[1].stock_code = Code700Raw
    /\ fn_args.items[1].announcement_url = "own-ann.pdf"
    /\ fn_args.items[1].company = Beta
    /\ fn_args.items[1].company_page_url = ""
    /\ fn_result[1].announcement_url = "own-ann.pdf"
    /\ fn_result[1].company = Beta
    /\ fn_result[1].prospectus_url = "pro-700.pdf"
    /\ fn_result[1].company_page_url = "pro-700.pdf"
    /\ fn_args.items[2].stock_code = Code9988
    /\ fn_result[2] = fn_args.items[2]

-----------------------------------------------------------------------------
(* The sample fixture's time shift.  In this part a date is written as the  *)
(* integer yyyymmdd, so that dates compare as integers do; NoDate is None.  *)

MakeDate(year, month, day) == year * 10000 + month * 100 + day
YearOf(value)  == value \div 10000
MonthOf(value) == (value \div 100) % 100
DayOf(value)   == value % 100

IsLeap(year) == year % 4 = 0 /\ (year % 100 # 0 \/ year % 400 = 0)

\* calendar.monthrange(year, month)[1]
DaysInMonth(year, month) ==
    IF month = 2 THEN (IF IsLeap(year) THEN 29 ELSE 28)
    ELSE IF month \in {4, 6, 9, 11} THEN 30 ELSE 31

RECURSIVE DaysBeforeMonth(_, _)
DaysBeforeMonth(year, month) ==
    IF month = 1 THEN 0
    ELSE DaysBeforeMonth(year, month - 1) + DaysInMonth(year, month - 1)

\* date.toordinal(): the days from 0001-01-01, which is day 1
ToOrdinal(value) ==
    LET before == YearOf(value) - 1
    IN  before * 365 + before \div 4 - before \div 100 + before \div 400
        + DaysBeforeMonth(YearOf(value), MonthOf(value)) + DayOf(value)

_month_index(value) == YearOf(value) * 12 + MonthOf(value)

\* faulty variant: the day of the month is kept whatever the target month
_add_months_Unclamped(value, months) ==
    MakeDate(YearOf(value) + (MonthOf(value) - 1 + months) \div 12,
             ((MonthOf(value) - 1 + months) % 12) + 1,
             DayOf(value))

_add_months(value, months) ==
    LET year  == YearOf(value) + (MonthOf(value) - 1 + months) \div 12
        month == ((MonthOf(value) - 1 + months) % 12) + 1
        day   == Min(DayOf(value), DaysInMonth(year, month))
    IN  MakeDate(year, month, day)

DateKeys == {"bookbuilding_start", "bookbuilding_end", "trade_date"}

_shift_item_months(item, months) ==
    [key \in DOMAIN item |->
        IF key \in DateKeys /\ item[key] # NoDate
        THEN _add_months(item[key], months) ELSE item[key]]

\* lines 232-241: the non-null dates of all records
DatesOf(its) ==
    {its[i][key] : i \in DOMAIN its, key \in DateKeys} \ {NoDate}

Latest(dates)   == CHOOSE d \in dates : \A e \in dates : e <= d
Earliest(dates) == CHOOSE d \in dates : \A e \in dates : d <= e

SAMPLE_RECENT_DAYS == 60

_shift_sample_to_recent(its, today) ==
    IF its = <<>> \/ DatesOf(its) = {} THEN its
    ELSE IF ToOrdinal(Latest(DatesOf(its))) >= ToOrdinal(today) - SAMPLE_RECENT_DAYS THEN its
    ELSE LET delta_months == _month_index(today) - _month_index(Earliest(DatesOf(its)))
         IN  IF delta_months = 0 THEN its
             ELSE [i \in DOMAIN its |-> _shift_item_months(its[i], delta_months)]

MaxSampleItems == 2

Todays == {20261101, 20261105, 20270215}

SampleRecord(start, end, trade) ==
    [company |-> Acme, bookbuilding_start |-> start, bookbuilding_end |-> end,
     trade_date |-> trade]

SampleRecords ==
    { SampleRecord(start, end, trade) :
        start \in {NoDate, 20240131, 20260829},
        end \in {NoDate, 20240229},
        trade \in {NoDate, 20240331, 20260910} }

InitSample ==
    /\ CalOff /\ DdIdle /\ EvIdle /\ TsIdle /\ FlIdle
    /\ fn_pc = "_shift_sample_to_recent"
    /\ fn_args \in [items : SeqsUpTo(SampleRecords, MaxSampleItems), today : Todays]
    /\ fn_result = <<>>

ShiftSampleToRecent ==
    /\ fn_pc = "_shift_sample_to_recent"
    /\ fn_result' = _shift_sample_to_recent(fn_args.items, fn_args.today)
    /\ fn_pc' = "done"
    /\ UNCHANGED <<fn_args, calVars, ddVars, evVars, tsVars, flVars>>

NextSample == ShiftSampleToRecent

SpecSample == InitSample /\ [][NextSample]_vars

Shifted == fn_pc = "done" /\ "today" \in DOMAIN fn_args

\* the fixture has a date and its latest date is more than 60 days before today
Stale ==
    /\ DatesOf(fn_args.items) # {}
    /\ ToOrdinal(fn_args.today) - ToOrdinal(Latest(DatesOf(fn_args.items))) > 60

DaysApart(a, b) ==
    IF ToOrdinal(a) >= ToOrdinal(b) THEN ToOrdinal(a) - ToOrdinal(b)
    ELSE ToOrdinal(b) - ToOrdinal(a)

\* C13: for a fixture whose latest date is more than 60 days before today, the
\* latest date after _shift_sample_to_recent is within 60 days of today,
\* whatever the span between the fixture's earliest and latest dates.
C13_LatestWithin60Days ==
    (Shifted /\ Stale) =>
        DaysApart(Latest(DatesOf(fn_result)), fn_args.today) <= 60

\* the date n whole months after `value`, on the same day of the month or on the
\* target month's last day when that month is shorter
MonthsLater(value, n) ==
    LET index == _month_index(value) + n
        year  == (index - 1) \div 12
        month == ((index - 1) % 12) + 1
        last  == IF month = 2 THEN (IF IsLeap(year) THEN 29 ELSE 28)
                 ELSE IF month \in {4, 6, 9, 11} THEN 30 ELSE 31
    IN  MakeDate(year, month, IF DayOf(value) <= last THEN DayOf(value) ELSE last)

MaxShiftMonths == 48

\* C14: the shift moves every non-null date of every record forward by the same
\* whole number of months, each shifted date keeping its day of the month or
\* taking the target month's last day when that is smaller; null dates stay
\* null, other fields are unchanged, and a fixture whose latest date is not
\* more than 60 days in the past is returned unchanged.
C14_WholeMonthShift ==
    Shifted =>
        LET before == fn_args.items
            after  == fn_result
        IN  /\ ~Stale => after = before
            /\ Stale =>
                 /\ Len(after) = Len(before)
                 /\ \E n \in 1..MaxShiftMonths :
                      \A i \in DOMAIN before :
                         /\ DOMAIN after[i] = DOMAIN before[i]
                         /\ \A key \in DOMAIN before[i] :
                              after[i][key] =
                                 IF key \in DateKeys /\ before[i][key] # NoDate
                                 THEN MonthsLater(before[i][key], n)
                                 ELSE before[i][key]

\* 31 January moves 34 months into November, which has 30 days; the record's
\* null date stays null and 31 March lands on 31 January
C14_Witness ==
    /\ Shifted
    /\ fn_args.today = 20261105
    /\ fn_args.items = <<SampleRecord(20240131, NoDate, 20240331)>>
    /\ fn_result = <<SampleRecord(20261130, NoDate, 20270131)>>

-----------------------------------------------------------------------------
(* normalize_stock_code, called on its own *)

MaxDigits  == 6
MaxCodeLen == 3

CodeAlphabet == {"0", "7", " ", "H", "K", ".", "-", "A", "\""}

StockCodeInputs ==
    SeqsUpTo({"0", "7"}, MaxDigits)
    \cup SeqsUpTo(CodeAlphabet, MaxCodeLen)
    \cup { <<"1">>, <<"8", "8", "8", "8", "8">>,
           <<"0", "0", "7", "0", "0", ".", "H", "K">> }

InitStockCode ==
    /\ CalOff /\ DdIdle /\ EvIdle /\ TsIdle /\ FlIdle
    /\ fn_pc = "normalize_stock_code"
    /\ fn_args \in [value : StockCodeInputs]
    /\ fn_result = <<>>

NormalizeStockCode ==
    /\ fn_pc = "normalize_stock_code"
    /\ fn_result' = normalize_stock_code(fn_args.value)
    /\ fn_pc' = "done"
    /\ UNCHANGED <<fn_args, calVars, ddVars, evVars, tsVars, flVars>>

NextStockCode == NormalizeStockCode

SpecStockCode == InitStockCode /\ [][NextStockCode]_vars

Normalized == fn_pc = "done" /\ DOMAIN fn_args = {"value"}

\* C15: for an input that is a string of decimal digits of any length the
\* result is exactly 5 digits, the input zero-padded on the left; "00700.HK"
\* and "700" give the same result; "" and "-" give "".
C15_FiveDigits ==
    Normalized =>
        /\ (fn_args.value # <<>> /\ AllDigits(fn_args.value)) =>
             /\ Len(fn_result) = 5
             /\ AllDigits(fn_result)
             /\ DecimalValue(fn_result) = DecimalValue(fn_args.value)
        /\ fn_args.value = <<"0", "0", "7", "0", "0", ".", "H", "K">>
             => fn_result = normalize_stock_code(<<"7", "0", "0">>)
        /\ fn_args.value \in {<<>>, <<"-">>} => fn_result = <<>>

\* C16: the result is the empty string whenever the residue left after removing
\* "HK"/".HK" and trimming is not numeric, is empty or is a placeholder; the
\* result is therefore always empty or all digits.
C16_EmptyOrDigits ==
    Normalized => (fn_result = <<>> \/ AllDigits(fn_result))

-----------------------------------------------------------------------------
(* extract_date_range.  Dates are written yyyymmdd, as in the sample shift. *)

Letters == LowerSet \cup DOMAIN LowerTable

\* the month names dateutil knows, in lower case, with their numbers
MonthNames ==
    {<<"j", "a", "n">>, <<"j", "a", "n", "u", "a", "r", "y">>} \X {1}
    \cup
    {<<"f", "e", "b">>, <<"f", "e", "b", "r", "u", "a", "r", "y">>} \X {2}
    \cup
    {<<"m", "a", "r">>, <<"m", "a", "r", "c", "h">>} \X {3}
    \cup
    {<<"a", "p", "r">>, <<"a", "p", "r", "i", "l">>} \X {4}
    \cup
    {<<"m", "a", "y">>} \X {5}
    \cup
    {<<"j", "u", "n">>, <<"j", "u", "n", "e">>} \X {6}
    \cup
    {<<"j", "u", "l">>, <<"j", "u", "l", "y">>} \X {7}
    \cup
    {<<"a", "u", "g">>, <<"a", "u", "g", "u", "s", "t">>} \X {8}
    \cup
    {<<"s", "e", "p">>, <<"s", "e", "p", "t", "e", "m", "b", "e", "r">>, <<"s", "e", "p", "t">>} \X {9}
    \cup
    {<<"o", "c", "t">>, <<"o", "c", "t", "o", "b", "e", "r">>} \X {10}
    \cup
    {<<"n", "o", "v">>, <<"n", "o", "v", "e", "m", "b", "e", "r">>} \X {11}
    \cup
    {<<"d", "e", "c">>, <<"d", "e", "c", "e", "m", "b", "e", "r">>} \X {12}

MonthNumber(name) == (CHOOSE pair \in MonthNames : pair[1] = name)[2]

\* safe_parse_date of "day month year" (lines 104-110): dateutil's parse, None
\* when the word is no month or the month has no such day
ParseDayMonthYear(day, month, year) ==
    LET name == [i \in 1..Len(month) |-> LowerChar(month[i])]
    IN  IF name \notin {pair[1] : pair \in MonthNames} THEN NoDate
        ELSE LET y == DecimalValue(year)
                 m == MonthNumber(name)
                 d == DecimalValue(day)
             IN  IF y >= 1 /\ d >= 1 /\ d <= DaysInMonth(y, m)
                 THEN MakeDate(y, m, d) ELSE NoDate

\* \d{1,2}\s+[A-Za-z]{3,9}\s+\d{4} matched from position i: its pieces and the
\* position after it, or <<>>
DayMonthYearAt(text, i) ==
    LET d  == RunLength(text, i, Digits)
        s1 == RunLength(text, i + d, Whitespace)
        m  == i + d + s1
        l  == RunLength(text, m, Letters)
        s2 == RunLength(text, m + l, Whitespace)
        y  == m + l + s2
    IN  IF /\ d \in {1, 2} /\ s1 >= 1 /\ l >= 3 /\ l <= 9 /\ s2 >= 1
           /\ RunLength(text, y, Digits) >= 4
        THEN << [day |-> SubSeq(text, i, i + d - 1), month |-> SubSeq(text, m, m + l - 1),
                 year |-> SubSeq(text, y, y + 3), stop |-> y + 4] >>
        ELSE <<>>

\* (\d{1,2})\s*-\s*(\d{1,2})\s+([A-Za-z]{3,9})\s+(\d{4}) matched from position i
CompactAt(text, i) ==
    LET d == RunLength(text, i, Digits)
        a == RunLength(text, i + d, Whitespace)
        h == i + d + a
        b == RunLength(text, h + 1, Whitespace)
        rest == DayMonthYearAt(text, h + 1 + b)
    IN  IF d \in {1, 2} /\ h <= Len(text) /\ text[h] = "-" /\ rest # <<>>
        THEN << [start_day |-> SubSeq(text, i, i + d - 1), end_day |-> rest[1].day,
                 month |-> rest[1].month, year |-> rest[1].year] >>
        ELSE <<>>

\* re.search takes the leftmost match; <<>> is None
_parse_compact_range(text) ==
    LET hits == {i \in 1..Len(text) : CompactAt(text, i) # <<>>}
    IN  IF hits = {} THEN <<>>
        ELSE LET match == CompactAt(text, CHOOSE i \in hits : \A j \in hits : i <= j)[1]
                 start == ParseDayMonthYear(match.start_day, match.month, match.year)
                 end   == ParseDayMonthYear(match.end_day, match.month, match.year)
             IN  IF start # NoDate /\ end # NoDate THEN <<start, end>> ELSE <<>>

\* re.findall: the matches from left to right, none overlapping; line 148 keeps
\* those that parse
RECURSIVE FindDates(_, _)
FindDates(text, i) ==
    IF i > Len(text) THEN <<>>
    ELSE LET match == DayMonthYearAt(text, i)
         IN  IF match = <<>> THEN FindDates(text, i + 1)
             ELSE LET value == ParseDayMonthYear(match[1].day, match[1].month, match[1].year)
                  IN  (IF value # NoDate THEN <<value>> ELSE <<>>)
                      \o FindDates(text, match[1].stop)

extract_date_range(text) ==
    IF text = <<>> THEN <<NoDate, NoDate>>
    ELSE LET compact == _parse_compact_range(text)
         IN  IF compact # <<>> THEN compact
             ELSE LET dates == FindDates(text, 1)
                  IN  IF Len(dates) >= 2 THEN <<dates[1], dates[2]>>
                      ELSE IF Len(dates) = 1 THEN <<dates[1], dates[1]>>
                      ELSE <<NoDate, NoDate>>

MaxParts == 3

PartCompact == <<"B", "o", "o", "k", "-", "b", "u", "i", "l", "d", "i", "n", "g", ":", " ", "3", "-", "7", " ", "J", "u", "n", "e", " ", "2", "0", "2", "4">>
PartListed  == <<"L", "i", "s", "t", "e", "d", " ", "o", "n", " ", "1", "0", " ", "J", "u", "n", "e", " ", "2", "0", "2", "4">>
PartJuly    == <<"1", "2", " ", "J", "u", "l", " ", "2", "0", "2", "4">>
PartBadEnd  == <<"1", "-", "3", "1", " ", "J", "u", "n", " ", "2", "0", "2", "4">>
PartPhase   == <<"P", "h", "a", "s", "e", " ", "1", "-", "2", " ", "t", "r", "i", "a", "l", " ", "2", "0", "2", "3">>
PartNone    == <<"t", "o", " ", "b", "e", " ", "c", "o", "n", "f", "i", "r", "m", "e", "d">>

TextParts == {PartCompact, PartListed, PartJuly, PartBadEnd, PartPhase, PartNone}

Separator == <<";", " ">>

RECURSIVE JoinParts(_)
JoinParts(parts) ==
    IF parts = <<>> THEN <<>>
    ELSE IF Len(parts) = 1 THEN parts[1]
    ELSE parts[1] \o Separator \o JoinParts(Tail(parts))

InitDateRange ==
    /\ CalOff /\ DdIdle /\ EvIdle /\ TsIdle /\ FlIdle
    /\ fn_pc = "extract_date_range"
    /\ \E parts \in SeqsUpTo(TextParts, MaxParts) :
         fn_args = [parts |-> parts, text |-> JoinParts(parts)]
    /\ fn_result = <<>>

ExtractDateRange ==
    /\ fn_pc = "extract_date_range"
    /\ fn_result' = extract_date_range(fn_args.text)
    /\ fn_pc' = "done"
    /\ UNCHANGED <<fn_args, calVars, ddVars, evVars, tsVars, flVars>>

NextDateRange == ExtractDateRange

SpecDateRange == InitDateRange /\ [][NextDateRange]_vars

RangeExtracted == fn_pc = "done" /\ "text" \in DOMAIN fn_args

\* what a reader finds in each part: a compact range, a single date, or nothing
RangeIn(part) == IF part = PartCompact THEN <<20240603, 20240607>> ELSE <<>>

DateIn(part) ==
    IF part = PartListed THEN <<20240610>>
    ELSE IF part = PartJuly THEN <<20240712>>
    ELSE <<>>

RECURSIVE DatesInOrder(_)
DatesInOrder(parts) ==
    IF parts = <<>> THEN <<>> ELSE DateIn(Head(parts)) \o DatesInOrder(Tail(parts))

\* C17: the result is the two ends of a compact "D-D Month YYYY" range when the
\* text contains one; otherwise, of the "D Month YYYY" dates in text order, it
\* is (first, second) when there are two or more, (d, d) when there is one and
\* (null, null) when there is none; the two results are both null or both
\* non-null.
C17_DateRange ==
    RangeExtracted =>
        LET parts  == fn_args.parts
            ranges == {i \in DOMAIN parts : RangeIn(parts[i]) # <<>>}
            dates  == DatesInOrder(parts)
        IN  /\ ranges # {} => fn_result = <<20240603, 20240607>>
            /\ (ranges = {} /\ Len(dates) >= 2) => fn_result = <<dates[1], dates[2]>>
            /\ (ranges = {} /\ Len(dates) = 1) => fn_result = <<dates[1], dates[1]>>
            /\ (ranges = {} /\ dates = <<>>) => fn_result = <<NoDate, NoDate>>
            /\ fn_result[1] = NoDate <=> fn_result[2] = NoDate
MaxHundredths == 20

WholeAmounts == {0, 78, 7800, 25000}

Amounts ==
    (0 .. MaxHundredths) \cup { units * AMOUNT_SCALE : units \in WholeAmounts }

CurrencyCodes == {"USD", "HKD", "RMB", "EUR", "hkd", ""}

InitConvert ==
    /\ CalOff /\ DdIdle /\ EvIdle /\ TsIdle /\ FlIdle
    /\ fn_pc = "convert_to_usd"
    /\ fn_args \in [amount : Amounts, currency : CurrencyCodes]
    /\ fn_result = <<>>

ConvertToUsd ==
    /\ fn_pc = "convert_to_usd"
    /\ fn_result' = convert_to_usd(fn_args.amount, fn_args.currency)
    /\ fn_pc' = "done"
    /\ UNCHANGED <<fn_args, calVars, ddVars, evVars, tsVars, flVars>>

NextConvert == ConvertToUsd

SpecConvert == InitConvert /\ [][NextConvert]_vars

Converted == fn_pc = "done" /\ DOMAIN fn_args = {"amount", "currency"}

\* C18: convert_to_usd returns the amount unchanged for "USD", the amount
\* divided by the fixed rate 7.80 for "HKD" (7800 HKD gives 1000.0 within 0.01),
\* and the amount unchanged for every other currency code.
C18_ConvertToUsd ==
    Converted =>
        /\ fn_args.currency = "USD" => fn_result = fn_args.amount
        /\ fn_args.currency = "HKD" =>
             /\ 2 * Abs(fn_result * DEFAULT_FX_USDHKD - fn_args.amount * FX_SCALE)
                  <= DEFAULT_FX_USDHKD
             /\ fn_args.amount = 7800 * AMOUNT_SCALE =>
                  FX_SCALE * Abs(fn_result - 1000 * AMOUNT_SCALE) <= AMOUNT_SCALE
        /\ fn_args.currency \notin {"USD", "HKD"} => fn_result = fn_args.amount

C18_Witness ==
    /\ Converted
    /\ fn_args.currency = "HKD"
    /\ fn_args.amount = 7800 * AMOUNT_SCALE
    /\ fn_result = 1000 * AMOUNT_SCALE
MaxTermFilings == 4

TermFilings ==
    { Filing(TitleApplicationProof, "a1.pdf", 3, "hkex-application-proof"),
      Filing(TitlePhip, "a2.pdf", NoDate, "hkex-application-proof"),
      Filing(TitleHearingPack, "a1.pdf", 2, "hkexnews"),
      Filing(TitleProspectus, "t1.PDF", 2, "hkexnews"),
      Filing(TitleProspectus, "l2.pdf", 2, "hkexnews"),
      Filing(TitleAnnouncement, "page.htm", 3, "hkexnews"),
      Filing(TitleAllotment, "l3.pdf", 3, "hkexnews"),
      Filing(TitleAnnualReport, "", 4, "titlesearch") }

\* the lists of at most MaxTermFilings filings, no filing listed twice
TermFilingLists ==
    { filings \in SeqsUpTo(TermFilings, MaxTermFilings) :
        \A i, j \in DOMAIN filings : i < j => filings[i] # filings[j] }

InitTerms ==
    /\ CalOff /\ DdIdle /\ EvIdle /\ TsIdle /\ FlIdle
    /\ fn_pc = "extract_terms_from_filings"
    /\ fn_args \in [filings : TermFilingLists, pdfs : PdfStores]
    /\ fn_result = <<>>

ExtractTermsFromFilings ==
    /\ fn_pc = "extract_terms_from_filings"
    /\ fn_result' = extract_terms_from_filings(fn_args.filings, fn_args.pdfs)
    /\ fn_pc' = IF fn_result'.raised THEN "raised" ELSE "done"
    /\ UNCHANGED <<fn_args, calVars, ddVars, evVars, tsVars, flVars>>

NextTerms == ExtractTermsFromFilings

SpecTerms == InitTerms /\ [][NextTerms]_vars

TermsCall == DOMAIN fn_args = {"filings", "pdfs"}

Attempts == fn_result.attempts

RankOf(attempt) == _term_sheet_rank(attempt.filing)

Yielding(key) ==
    { i \in DOMAIN Attempts :
        Attempts[i].terms # <<>> /\ Attempts[i].terms[1][key] # NoValue }

FirstYield(key) ==
    IF Yielding(key) = {} THEN NoValue
    ELSE Attempts[CHOOSE i \in Yielding(key) : \A j \in Yielding(key) : i <= j].terms[1][key]

\* C20: extracted terms are merged first-found-wins: for each field the value
\* in the result is the non-null value of the first processed PDF, in rank
\* order, that yielded one, and a field once set is never replaced or cleared
\* by a later candidate.
C20_FirstFoundWins ==
    (TermsCall /\ fn_pc = "done") =>
        /\ \A key \in TermKeys : fn_result.extracted[key] = FirstYield(key)
        /\ \A i \in DOMAIN Attempts :
             /\ Attempts[i].before =
                  IF i = 1 THEN NoTerms ELSE Attempts[i - 1].after
             /\ \A key \in TermKeys :
                  Attempts[i].before[key] # NoValue
                    => Attempts[i].after[key] = Attempts[i].before[key]
        /\ Attempts # <<>> => fn_result.extracted = Attempts[Len(Attempts)].after

\* two documents give different market capitalisations; the first is kept
C20_Witness ==
    /\ TermsCall /\ fn_pc = "done"
    /\ Len(Attempts) = 3
    /\ Attempts[1].terms # <<>> /\ Attempts[3].terms # <<>>
    /\ Attempts[1].terms[1].market_cap = <<Money(780000, "HKD")>>
    /\ Attempts[3].terms[1].market_cap = <<Money(500, "USD")>>
    /\ fn_result.extracted.market_cap = <<Money(780000, "HKD")>>
    /\ fn_result.extracted.ipo_value_usd = <<100000>>
    /\ fn_result.extracted.valuation_multiple = <<"12x">>

-----------------------------------------------------------------------------
(* fetch_ipo_details: the raise amount (src/hkex_client.py 918-934) *)

MaxFundsLen == 3

FundsAlphabet == {"1", "5", ",", ".", "-", " "}

\* what the record's funds_raised_hkd may hold; <<>> stands for a record
\* without the key
FundsValues ==
    {NoneValue, NanValue, NumberValue(0), NumberValue(156000)}
    \cup { TextValue(text) : text \in SeqsUpTo(FundsAlphabet, MaxFundsLen) }

WithFunds(item, funds) ==
    IF funds = <<>> THEN item
    ELSE [key \in DOMAIN item \cup {"funds_raised_hkd"} |->
            IF key = "funds_raised_hkd" THEN funds[1] ELSE item[key]]

InitRaise ==
    /\ CalIdle /\ DdIdle /\ EvIdle /\ TsIdle /\ FnIdle
    /\ fl_pc = "start"
    /\ \E documents \in {<<>>, <<DocA>>, <<DocB, DocA>>},
          allotment \in {Missing, "l3.pdf"},
          funds \in {<<>>} \cup { <<value>> : value \in FundsValues } :
          fl_item = WithFunds(DetailsItem(<<>>, documents, Missing, Missing, allotment),
                              funds)
    /\ fl_search = <<>>
    /\ fl_overrides = OverridesFile("object", OverrideTable)
    /\ fl_pdfs \in PdfStores
    /\ candidates = <<>>
    /\ details = NoDetails
    /\ fl_log = <<>>

SpecRaise == InitRaise /\ [][NextFilings]_vars

\* what the documents of the returned call yielded for the raise amount
ExtractedRaise ==
    extract_terms_from_filings(_dedupe_filings(candidates), fl_pdfs)
        .extracted.raise_amount_usd

Funds == IF "funds_raised_hkd" \in DOMAIN fl_item THEN <<fl_item.funds_raised_hkd>> ELSE <<>>

\* a text that reads as a decimal numeral once its commas and the blanks
\* around it are dropped: an optional sign, digits, at most one point, and at
\* least one digit
NumeralText(text) ==
    LET stripped == Strip(Remove(text, <<",">>))
        signed   == stripped # <<>> /\ stripped[1] \in {"+", "-"}
        body     == IF signed THEN Tail(stripped) ELSE stripped
        points   == {i \in DOMAIN body : body[i] = "."}
    IN  /\ Cardinality(points) <= 1
        /\ \A i \in DOMAIN body \ points : body[i] \in Digits
        /\ DOMAIN body \ points # {}

HoldsNumber ==
    /\ Funds # <<>>
    /\ \/ Funds[1].kind = "number"
       \/ Funds[1].kind = "text" /\ NumeralText(Funds[1].text)

\* the number the field holds, in hundredths
NumberHeld ==
    IF Funds[1].kind = "number" THEN Funds[1].amount ELSE _parse_float(Funds[1])[1]

\* C21: the raise_amount_usd returned by fetch_ipo_details equals the amount
\* extracted from the documents whenever one was extracted; otherwise it equals
\* the record's funds_raised_hkd divided by 7.80 when that field holds a
\* number; otherwise it is null.
C21_RaiseAmount ==
    Assembled =>
        /\ ExtractedRaise # NoValue => details.raise_amount_usd = ExtractedRaise
        /\ (ExtractedRaise = NoValue /\ HoldsNumber) =>
             /\ details.raise_amount_usd # NoValue
             /\ 2 * Abs(details.raise_amount_usd[1] * DEFAULT_FX_USDHKD
                        - NumberHeld * FX_SCALE) <= DEFAULT_FX_USDHKD
        /\ (ExtractedRaise = NoValue /\ ~HoldsNumber) =>
             details.raise_amount_usd = NoValue

\* the documents give no raise amount and the record holds 1560.00 HKD
C21_Witness ==
    /\ Assembled
    /\ Len(fl_log) = 2
    /\ ExtractedRaise = NoValue
    /\ Funds = <<NumberValue(156000)>>
    /\ details.raise_amount_usd = <<20000>>
    /\ details.ipo_value_usd = <<100000>>

\* the store in which every document that cannot be opened or holds a
\* malformed number reads as a document without text
Tolerant(pdfs) ==
    [url \in DOMAIN pdfs |->
        IF pdfs[url].kind \in {"unreadable", "bad-number"} THEN Pdf("empty", <<>>)
        ELSE pdfs[url]]

\* C22: document analysis is never fatal to fetch_ipo_details: a candidate PDF
\* that cannot be downloaded, cannot be opened as a PDF, or whose matched number
\* text is not a valid number yields absent fields for that candidate, does not
\* raise, and does not keep later candidates from being processed or the
\* result from being returned.
C22_AnalysisNeverFatal ==
    (fl_pc \in {"done", "raised"} /\ ~LoadOverridesRaises(fl_overrides)) =>
        /\ fl_pc = "done"
        /\ details = fetch_ipo_details(fl_item, load_overrides(fl_overrides),
                                       fl_search, Tolerant(fl_pdfs)).details

-----------------------------------------------------------------------------
(* The money extractors (src/hkex_client.py 1226-1284) *)

UpperChar(c) ==
    IF \E u \in DOMAIN LowerTable : LowerTable[u] = c
    THEN CHOOSE u \in DOMAIN LowerTable : LowerTable[u] = c
    ELSE c

\* the class [0-9.,] of the patterns
NumberChars == Digits \cup {".", ","}

\* the currency alternatives of the patterns, in the order they are tried
CURRENCY_TOKENS == << <<"h", "k", "$">>, <<"u", "s", "$">>, <<"u", "s", "d">>, <<"h", "k", "d">> >>

\* the magnitude alternatives of the patterns, in the order they are tried
UNIT_WORDS == << <<"m", "i", "l", "l", "i", "o", "n">>, <<"b", "i", "l", "l", "i", "o", "n">>, <<"m", "n">>, <<"b", "n">> >>

\* re.I: the word matches at position i whatever the letter case
WordAt(text, word, i) ==
    /\ i + Len(word) - 1 <= Len(text)
    /\ MatchesAt(text, word, i)

\* the first of the words that matches at position i, as written in the
\* text; <<>> when none does
FirstWordAt(text, words, i) ==
    LET hits == { k \in DOMAIN words : WordAt(text, words[k], i) }
    IN  IF hits = {} THEN <<>>
        ELSE LET k == CHOOSE h \in hits : \A g \in hits : h <= g
             IN  SubSeq(text, i, i + Len(words[k]) - 1)

\* the position of the first character at or after i that is not in the class
SkipClass(text, i, class) == i + RunLength(text, i, class)

\* the tail (currency)?\s*([0-9.,]+) tried at position i: the optional group
\* takes a currency token when the rest then matches, and is skipped otherwise
TailAt(text, i) ==
    LET token     == FirstWordAt(text, CURRENCY_TOKENS, i)
        after     == SkipClass(text, i + Len(token), Whitespace)
        unprefixed == SkipClass(text, i, Whitespace)
    IN  IF token # <<>> /\ after <= Len(text) /\ text[after] \in NumberChars
        THEN [found |-> TRUE, currency |-> <<token>>, start |-> after]
        ELSE IF unprefixed <= Len(text) /\ text[unprefixed] \in NumberChars
        THEN [found |-> TRUE, currency |-> <<>>, start |-> unprefixed]
        ELSE [found |-> FALSE, currency |-> <<>>, start |-> 0]

\* [^\d]* is greedy: it first runs up to the next digit and gives characters
\* back one at a time until the tail matches
RECURSIVE Backtrack(_, _, _)
Backtrack(text, i, from) ==
    IF TailAt(text, i).found THEN TailAt(text, i)
    ELSE IF i = from THEN TailAt(text, i)
    ELSE Backtrack(text, i - 1, from)

\* the leftmost position at which the label matches, 0 when it does not occur
LabelAt(text, label) ==
    LET hits == { i \in 1..Len(text) : WordAt(text, label, i) }
    IN  IF hits = {} THEN 0 ELSE CHOOSE i \in hits : \A j \in hits : i <= j

\* re.search(label [^\d]* (currency)? \s* ([0-9.,]+) \s* (unit)?, text, re.I):
\* the groups of the match; the unit group is left out of the offer-price
\* pattern
MoneyMatch(text, label, with_unit) ==
    LET at == LabelAt(text, label)
    IN  IF at = 0 THEN [found |-> FALSE]
        ELSE LET from == at + Len(label)
                 tail == Backtrack(text, SkipClass(text, from, Elements(text) \ Digits), from)
             IN  IF ~tail.found THEN [found |-> FALSE]
                 ELSE LET stop == SkipClass(text, tail.start, NumberChars)
                          unit == FirstWordAt(text, UNIT_WORDS,
                                              SkipClass(text, stop, Whitespace))
                      IN  [found |-> TRUE,
                           currency |-> tail.currency,
                           value |-> SubSeq(text, tail.start, stop - 1),
                           unit |-> IF with_unit /\ unit # <<>> THEN <<unit>> ELSE <<>>]

MILLION == 1000000
BILLION == 1000000000

\* lines 1276-1284
_unit_multiplier(unit) ==
    IF unit = <<>> THEN 1
    ELSE LET lower == [i \in DOMAIN unit[1] |-> LowerChar(unit[1][i])]
         IN  IF lower \in {<<"b">>, <<"b", "n">>, <<"b", "i", "l", "l", "i", "o", "n">>} THEN BILLION
             ELSE IF lower \in {<<"m">>, <<"m", "n">>, <<"m", "i", "l", "l", "i", "o", "n">>} THEN MILLION
             ELSE 1

\* lines 1265-1273; a code that is neither dollar is passed through, which the
\* model shows as "other"
normalize_currency(currency) ==
    IF currency = <<>> \/ currency[1] = <<>> THEN "USD"
    ELSE LET upper == Remove([i \in DOMAIN currency[1] |-> UpperChar(currency[1][i])],
                             <<" ">>)
         IN  IF upper \in {<<"U", "S", "$">>, <<"U", "S", "D">>} THEN "USD"
             ELSE IF upper \in {<<"H", "K", "$">>, <<"H", "K", "D">>} THEN "HKD"
             ELSE "other"

\* lines 1258-1262: float() raises on a text that is no number; the amount is
\* the value in hundredths times the multiplier
_parse_money(value, currency, unit) ==
    LET clean_value == FloatOfText(Remove(value, <<",">>))
    IN  IF clean_value = <<>> THEN [raised |-> TRUE, money |-> <<>>]
        ELSE [raised |-> FALSE,
              money |-> << [hundredths |-> clean_value[1],
                            multiplier |-> _unit_multiplier(unit),
                            currency |-> normalize_currency(currency)] >>]

\* the three extractors of lines 1226-1247: None is <<>>; the optional
\* " range" of the offer-price pattern is run over by [^\d]* all the same
ExtractMoney(text, label, with_unit) ==
    LET match == MoneyMatch(text, label, with_unit)
    IN  IF ~match.found THEN [raised |-> FALSE, money |-> <<>>]
        ELSE _parse_money(match.value, match.currency, match.unit)

_extract_offer_price(text) == ExtractMoney(text, <<"o", "f", "f", "e", "r", " ", "p", "r", "i", "c", "e">>, FALSE)

_extract_gross_proceeds(text) == ExtractMoney(text, <<"g", "r", "o", "s", "s", " ", "p", "r", "o", "c", "e", "e", "d", "s">>, TRUE)

\* capitali[sz]ation: the spelling that occurs first in the text
_extract_market_cap(text) ==
    LET s == LabelAt(text, <<"m", "a", "r", "k", "e", "t", " ", "c", "a", "p", "i", "t", "a", "l", "i", "s", "a", "t", "i", "o", "n">>)
        z == LabelAt(text, <<"m", "a", "r", "k", "e", "t", " ", "c", "a", "p", "i", "t", "a", "l", "i", "z", "a", "t", "i", "o", "n">>)
    IN  IF z # 0 /\ (s = 0 \/ z < s)
        THEN ExtractMoney(text, <<"m", "a", "r", "k", "e", "t", " ", "c", "a", "p", "i", "t", "a", "l", "i", "z", "a", "t", "i", "o", "n">>, TRUE)
        ELSE ExtractMoney(text, <<"m", "a", "r", "k", "e", "t", " ", "c", "a", "p", "i", "t", "a", "l", "i", "s", "a", "t", "i", "o", "n">>, TRUE)

\* lines 1162-1168 on one pair: convert_to_usd of the amount, the multiplier
\* carried along
UsdValue(money) ==
    [hundredths |-> convert_to_usd(money.hundredths, money.currency),
     multiplier |-> money.multiplier]

Leads == { <<"g", "r", "o", "s", "s", " ", "p", "r", "o", "c", "e", "e", "d", "s">>, <<"G", "r", "o", "s", "s", " ", "P", "r", "o", "c", "e", "e", "d", "s">>, <<"m", "a", "r", "k", "e", "t", " ", "c", "a", "p", "i", "t", "a", "l", "i", "s", "a", "t", "i", "o", "n">>, <<"M", "a", "r", "k", "e", "t", " ", "C", "a", "p", "i", "t", "a", "l", "i", "z", "a", "t", "i", "o", "n">>, <<"o", "f", "f", "e", "r", " ", "p", "r", "i", "c", "e">> }

Connectors == { <<" ", "o", "f", " ">>, <<":", " ">>, <<" ">> }

CurrencyWritten == { <<>>, <<"H", "K", "$">>, <<"H", "K", "D", " ">>, <<"U", "S", "$">>, <<"h", "k", "$">> }

NumbersWritten == { <<>>, <<"5", "0", "0">>, <<"1", ",", "2", "3", "4", ".", "5">>, <<"2", ".", "5">>, <<".">>, <<"1", ".", "2", ".", "3">> }

UnitsWritten == { <<>>, <<" ", "m", "i", "l", "l", "i", "o", "n">>, <<" ", "b", "n">>, <<"b", "i", "l", "l", "i", "o", "n">>, <<" ", "p", "e", "r", " ", "s", "h", "a", "r", "e", ".">> }

\* one sentence of a document, the parts it is written from, and the
\* extractor applied to it
InitMoney ==
    /\ CalOff /\ DdIdle /\ EvIdle /\ TsIdle /\ FlIdle
    /\ fn_pc \in {"_extract_offer_price", "_extract_gross_proceeds", "_extract_market_cap"}
    /\ \E lead \in Leads, connector \in Connectors, currency \in CurrencyWritten,
          number \in NumbersWritten, unit \in UnitsWritten :
          fn_args = [extractor |-> fn_pc,
                     text |-> lead \o connector \o currency \o number \o unit,
                     lead |-> lead, currency |-> currency, number |-> number,
                     unit |-> unit]
    /\ fn_result = <<>>

ExtractOfferPrice ==
    /\ fn_pc = "_extract_offer_price"
    /\ fn_result' = _extract_offer_price(fn_args.text)
    /\ fn_pc' = IF fn_result'.raised THEN "raised" ELSE "done"
    /\ UNCHANGED <<fn_args, calVars, ddVars, evVars, tsVars, flVars>>

ExtractGrossProceeds ==
    /\ fn_pc = "_extract_gross_proceeds"
    /\ fn_result' = _extract_gross_proceeds(fn_args.text)
    /\ fn_pc' = IF fn_result'.raised THEN "raised" ELSE "done"
    /\ UNCHANGED <<fn_args, calVars, ddVars, evVars, tsVars, flVars>>

ExtractMarketCap ==
    /\ fn_pc = "_extract_market_cap"
    /\ fn_result' = _extract_market_cap(fn_args.text)
    /\ fn_pc' = IF fn_result'.raised THEN "raised" ELSE "done"
    /\ UNCHANGED <<fn_args, calVars, ddVars, evVars, tsVars, flVars>>

NextMoney == ExtractOfferPrice \/ ExtractGrossProceeds \/ ExtractMarketCap

SpecMoney == InitMoney /\ [][NextMoney]_vars


MoneyCall == DOMAIN fn_args = {"extractor", "text", "lead", "currency", "number", "unit"}

\* the sentence states the quantity the extractor looks for
LeadOf(extractor) ==
    IF extractor = "_extract_gross_proceeds"
    THEN { <<"g", "r", "o", "s", "s", " ", "p", "r", "o", "c", "e", "e", "d", "s">>, <<"G", "r", "o", "s", "s", " ", "P", "r", "o", "c", "e", "e", "d", "s">> }
    ELSE IF extractor = "_extract_market_cap"
    THEN { <<"m", "a", "r", "k", "e", "t", " ", "c", "a", "p", "i", "t", "a", "l", "i", "s", "a", "t", "i", "o", "n">>, <<"M", "a", "r", "k", "e", "t", " ", "C", "a", "p", "i", "t", "a", "l", "i", "z", "a", "t", "i", "o", "n">> }
    ELSE { <<"o", "f", "f", "e", "r", " ", "p", "r", "i", "c", "e">> }

\* the numbers written that are valid, with their values in hundredths
WrittenHundredths(number) ==
    CASE number = <<"5", "0", "0">> -> 50000
      [] number = <<"1", ",", "2", "3", "4", ".", "5">> -> 123450
      [] number = <<"2", ".", "5">> -> 250
      [] OTHER -> 0 - 1

WrittenMultiplier(unit) ==
    CASE unit = <<" ", "m", "i", "l", "l", "i", "o", "n">> -> MILLION
      [] unit \in { <<" ", "b", "n">>, <<"b", "i", "l", "l", "i", "o", "n">> } -> BILLION
      [] OTHER -> 1

HongKongDollarStated ==
    /\ MoneyCall /\ fn_pc \in {"done", "raised"}
    /\ fn_args.extractor \in {"_extract_gross_proceeds", "_extract_market_cap"}
    /\ fn_args.lead \in LeadOf(fn_args.extractor)
    /\ fn_args.currency \in { <<"H", "K", "$">>, <<"H", "K", "D", " ">> }
    /\ WrittenHundredths(fn_args.number) >= 0

\* C23: when the text states gross proceeds or market capitalisation with a
\* Hong Kong dollar token (HK$ or HKD) directly before the number, the
\* extracted pair carries currency HKD and the magnitude-scaled amount, so that
\* the USD value is that amount divided by 7.80 and not the HKD amount taken
\* as USD.
C23_HongKongDollars ==
    HongKongDollarStated =>
        /\ fn_pc = "done"
        /\ fn_result.money # <<>>
        /\ fn_result.money[1].currency = "HKD"
        /\ fn_result.money[1].hundredths = WrittenHundredths(fn_args.number)
        /\ fn_result.money[1].multiplier = WrittenMultiplier(fn_args.unit)
        /\ 2 * Abs(UsdValue(fn_result.money[1]).hundredths * DEFAULT_FX_USDHKD
                   - WrittenHundredths(fn_args.number) * FX_SCALE) <= DEFAULT_FX_USDHKD

-----------------------------------------------------------------------------
(* The secondary-market-site adapter (src/hkex_client.py 420-516) *)

\* a text matched by \d{4}[/-]\d{1,2}[/-]\d{1,2}, as its three numbers
Ymd(year, month, day) == <<year, month, day>>

\* lines 117-124 on such a text: date(year, month, day), None on ValueError
parse_ymd_date(ymd) ==
    IF /\ ymd[1] >= 1
       /\ ymd[2] \in 1..12
       /\ ymd[3] >= 1 /\ ymd[3] <= DaysInMonth(ymd[1], ymd[2])
    THEN MakeDate(ymd[1], ymd[2], ymd[3])
    ELSE NoDate

\* what the request for a row's detail page leads to:
\*   "error"      session.get raises (transport error, timeout)
\*   "not-ok"     a response that is not 2xx
\*   "no-period"  a page without an offer-period cell, or with an empty one
\*   "period"     a page whose offer-period text holds the matches given
DetailPage(kind, matches) == [kind |-> kind, matches |-> matches]

\* lines 488-497: the text is None (<<>>) or is given by its date matches
_fetch_aastocks_offer_period(page) ==
    IF page.kind = "error" THEN [raised |-> TRUE, text |-> <<>>]
    ELSE IF page.kind = "period" THEN [raised |-> FALSE, text |-> <<page.matches>>]
    ELSE [raised |-> FALSE, text |-> <<>>]

\* lines 500-516
_parse_aastocks_offer_period(offer_period_text, closing_date) ==
    LET matches == IF offer_period_text = <<>> THEN <<>> ELSE offer_period_text[1]
        parsed  == [i \in DOMAIN matches |-> parse_ymd_date(matches[i])]
    IN  IF Len(parsed) >= 2 /\ (parsed[1] # NoDate \/ parsed[2] # NoDate)
        THEN <<parsed[1], parsed[2]>>
        ELSE IF Len(parsed) = 1 /\ parsed[1] # NoDate
        THEN <<parsed[1], parsed[1]>>
        ELSE <<closing_date, closing_date>>

\* one <tr> of the table: the number of its cells, the text of the name cell,
\* whether the name is a link, the code cell, the two dates, the detail page
TableRow(cells, name, linked, code, closing_date, listing_date, page) ==
    [cells |-> cells, name |-> name, linked |-> linked, code |-> code,
     closing_date |-> closing_date, listing_date |-> listing_date, page |-> page]

NameCode == <<"N", "a", "m", "e", "/", "C", "o", "d", "e">>

LowerText(text) == [i \in DOMAIN text |-> LowerChar(text[i])]

\* lines 431-438: the row gives no record
RowSkipped(row) ==
    LET company    == IF row.linked THEN row.name ELSE <<>>
        stock_code == normalize_stock_code(row.code)
    IN  \/ row.cells < 7
        \/ company = <<>>
        \/ LowerText(company) = LowerText(NameCode)
        \/ LowerText(stock_code) = <<"s", "t", "o", "c", "k">>

\* lines 439-466: the record of a row, given its offer-period text
RowItem(row, offer_period_text) ==
    LET book == _parse_aastocks_offer_period(offer_period_text, row.closing_date)
    IN  [AastocksItem(row.name, row.code, book[1], book[2], row.listing_date)
            EXCEPT !.bookbuilding_label =
                     IF offer_period_text = <<>> \/ offer_period_text[1] = <<>>
                     THEN "Offer close" ELSE "Offer period"]

\* the loop of lines 427-472, `collected` being the local list `items`
RECURSIVE RowsLoop(_, _)
RowsLoop(rows, collected) ==
    IF rows = <<>> THEN [raised |-> FALSE, recs |-> collected]
    ELSE LET row == Head(rows)
         IN  IF RowSkipped(row) THEN RowsLoop(Tail(rows), collected)
             ELSE LET fetched == _fetch_aastocks_offer_period(row.page)
                  IN  IF fetched.raised THEN [raised |-> TRUE, recs |-> <<>>]
                      ELSE RowsLoop(Tail(rows),
                                    Append(collected, RowItem(row, fetched.text)))

\* lines 420-473: the main page fails (raise_for_status), holds no table of
\* upcoming listings, or holds the rows given
_fetch_aastocks_upcoming_calendar(site) ==
    IF site.kind = "error" THEN [raised |-> TRUE, recs |-> <<>>]
    ELSE IF site.kind = "no-table" THEN [raised |-> FALSE, recs |-> <<>>]
    ELSE RowsLoop(site.rows, <<>>)

MaxRows == 2

ClosingDay == MakeDate(2024, 6, 7)

DetailPages ==
    { DetailPage("error", <<>>), DetailPage("not-ok", <<>>),
      DetailPage("no-period", <<>>), DetailPage("period", <<>>),
      DetailPage("period", <<Ymd(2024, 6, 3), Ymd(2024, 6, 6)>>),
      DetailPage("period", <<Ymd(2024, 6, 3)>>),
      DetailPage("period", <<Ymd(2024, 13, 45)>>),
      DetailPage("period", <<Ymd(2024, 6, 3), Ymd(2024, 2, 30)>>),
      DetailPage("period", <<Ymd(2024, 13, 45), Ymd(2024, 6, 6)>>),
      DetailPage("period", <<Ymd(2024, 13, 45), Ymd(2023, 2, 29), Ymd(2024, 6, 5)>>) }

TableRows ==
    { TableRow(7, Acme, linked, <<"7", "0", "0">>, closing, MakeDate(2024, 6, 12), page) :
        linked \in BOOLEAN, closing \in {NoDate, ClosingDay}, page \in DetailPages }
    \cup { TableRow(7, NameCode, TRUE, <<>>, NoDate, NoDate, DetailPage("not-ok", <<>>)),
           TableRow(2, Acme, TRUE, <<>>, ClosingDay, NoDate, DetailPage("not-ok", <<>>)),
           TableRow(7, <<>>, FALSE, <<>>, ClosingDay, NoDate, DetailPage("not-ok", <<>>)) }

Sites ==
    { [kind |-> "error", rows |-> <<>>], [kind |-> "no-table", rows |-> <<>>] }
    \cup { [kind |-> "table", rows |-> rows] : rows \in SeqsUpTo(TableRows, MaxRows) }

InitAastocks ==
    /\ CalOff /\ DdIdle /\ EvIdle /\ TsIdle /\ FlIdle
    /\ fn_pc = "_fetch_aastocks_upcoming_calendar"
    /\ fn_args \in [site : Sites]
    /\ fn_result = <<>>

FetchAastocksUpcomingCalendar ==
    /\ fn_pc = "_fetch_aastocks_upcoming_calendar"
    /\ fn_result' = _fetch_aastocks_upcoming_calendar(fn_args.site)
    /\ fn_pc' = IF fn_result'.raised THEN "raised" ELSE "done"
    /\ UNCHANGED <<fn_args, calVars, ddVars, evVars, tsVars, flVars>>

NextAastocks == FetchAastocksUpcomingCalendar

SpecAastocks == InitAastocks /\ [][NextAastocks]_vars

\* the rows of the table that have seven cells and a company name
RECURSIVE NamedRows(_)
NamedRows(rows) ==
    IF rows = <<>> THEN <<>>
    ELSE (IF Head(rows).cells >= 7 /\ Head(rows).name \notin {<<>>, NameCode}
          THEN <<Head(rows)>> ELSE <<>>)
         \o NamedRows(Tail(rows))

\* the detail page is unavailable, or its offer period does not give two
\* valid dates
NoOfferPeriod(row) ==
    \/ ~row.linked
    \/ row.page.kind # "period"
    \/ Len(row.page.matches) < 2
    \/ parse_ymd_date(row.page.matches[1]) = NoDate
    \/ parse_ymd_date(row.page.matches[2]) = NoDate

\* C24: every table row with a company name yields a record; when the row's
\* detail page is unavailable (no link, transport error, timeout or non-2xx
\* response) or its offer period cannot be parsed into two valid dates, the
\* record has bookbuilding start and end both equal to the row's closing date;
\* a failing detail page never loses other rows or the adapter's output.
C24_DetailPageFallback ==
    (DOMAIN fn_args = {"site"} /\ fn_pc \in {"done", "raised"}
        /\ fn_args.site.kind = "table") =>
        LET named == NamedRows(fn_args.site.rows)
        IN  /\ fn_pc = "done"
            /\ Len(fn_result.recs) = Len(named)
            /\ \A k \in DOMAIN named :
                 /\ fn_result.recs[k].company = named[k].name
                 /\ NoOfferPeriod(named[k]) =>
                      /\ fn_result.recs[k].bookbuilding_start = named[k].closing_date
                      /\ fn_result.recs[k].bookbuilding_end = named[k].closing_date

\* ---------------------------------------------------------------------------
\* search_hkex_filings: the two title-search endpoints (lines 937-960)
\* ---------------------------------------------------------------------------

\* lines 48-51: the structured POST endpoint, then the GET page
HKEX_SEARCH_ENDPOINTS ==
    << [source |-> "servlet", method |-> "post"],
       [source |-> "xhtml",   method |-> "get"] >>

\* a dict of the JSON payload: the first truthy value among its title keys,
\* its url keys and its date keys (<<>>, Missing and NoDate when there is none)
JsonNode(title, url, published) ==
    [title |-> title, url |-> url, published |-> published]

\* an <a href> of the response: its text, the date found in its parent's
\* text and that text itself
Anchor(href, title, parent, published) ==
    [href |-> href, title |-> title, parent |-> parent, published |-> published]

\* a response body: blank, a page that does not start with a bracket, text
\* that starts with one but is not JSON, or a JSON list of dicts
SearchText(shape, payload, anchors) ==
    [shape |-> shape, payload |-> payload, anchors |-> anchors]

\* what one request does: it raises, answers outside 2xx, or answers with text
Response(kind, text) == [kind |-> kind, text |-> text]

\* lines 978-986: the payload, or None
_try_parse_json(text) ==
    IF text.shape = "json" THEN <<text.payload>> ELSE NoValue

\* lines 1046-1051
_normalize_hkex_url(url) ==
    CASE url = "https://cdn.example/s2.pdf" -> url
      [] url = "/s1.pdf"  -> "https://www1.hkexnews.hk/s1.pdf"
      [] url = "s1.pdf"   -> "https://www1.hkexnews.hk/s1.pdf"
      [] url = "t1.PDF"   -> "https://www1.hkexnews.hk/t1.PDF"
      [] url = "page.htm" -> "https://www1.hkexnews.hk/page.htm"
      [] OTHER            -> "https://www1.hkexnews.hk/other"

\* lines 998-1018: the stack pops the dicts of a list last to first
RECURSIVE JsonWalk(_, _)
JsonWalk(stack, source) ==
    IF stack = <<>> THEN <<>>
    ELSE LET node == stack[Len(stack)]
             rest == SubSeq(stack, 1, Len(stack) - 1)
         IN  (IF node.title # <<>> /\ node.url # Missing
              THEN <<Filing(node.title, _normalize_hkex_url(node.url),
                            safe_parse_date(node.published), source)>>
              ELSE <<>>)
             \o JsonWalk(rest, source)

\* lines 998-1019
_extract_filings_from_json(payload, source) ==
    _dedupe_filings(JsonWalk(payload, source))

\* lines 1041-1043
_is_filing_link(href) ==
    LET suffix == UrlSuffix(href)
        lower  == [i \in DOMAIN suffix |-> LowerChar(suffix[i])]
    IN  lower \in {<<".", "p", "d", "f">>, <<".", "h", "t", "m">>,
                   <<".", "h", "t", "m", "l">>}

\* lines 1025-1037
RECURSIVE AnchorFilings(_, _)
AnchorFilings(anchors, source) ==
    IF anchors = <<>> THEN <<>>
    ELSE LET link == Head(anchors)
         IN  (IF _is_filing_link(link.href)
              THEN <<Filing(IF link.title # <<>> THEN link.title ELSE link.parent,
                            _normalize_hkex_url(link.href), link.published, source)>>
              ELSE <<>>)
             \o AnchorFilings(Tail(anchors), source)

\* lines 1022-1038
_extract_filings_from_html(text, source) ==
    _dedupe_filings(AnchorFilings(text.anchors, source))

\* faulty variant: the anchors are read before the JSON payload
EndpointYield_HtmlFirst(response, source) ==
    IF response.kind # "ok" THEN <<>>
    ELSE LET html == _extract_filings_from_html(response.text, source)
             json_payload == _try_parse_json(response.text)
         IN  IF html # <<>> THEN html
             ELSE IF json_payload # NoValue /\ json_payload[1] # <<>>
                  THEN _extract_filings_from_json(json_payload[1], source)
                  ELSE <<>>

\* lines 943-959: the filings one endpoint contributes; a request that raised
\* or was answered outside 2xx contributes none
EndpointYield(response, source) ==
    IF response.kind # "ok" THEN <<>>
    ELSE LET json_payload == _try_parse_json(response.text)
             from_json == IF json_payload # NoValue /\ json_payload[1] # <<>>
                          THEN _extract_filings_from_json(json_payload[1], source)
                          ELSE <<>>
         IN  IF from_json # <<>> THEN from_json
             ELSE _extract_filings_from_html(response.text, source)

\* lines 942-960: the requests made so far, and the return at the first
\* endpoint that yields filings
RECURSIVE SearchLoop(_, _, _)
SearchLoop(responses, k, found) ==
    IF k > Len(HKEX_SEARCH_ENDPOINTS)
    THEN [filings |-> <<>>, requests |-> found.requests]
    ELSE LET got  == EndpointYield(responses[k], HKEX_SEARCH_ENDPOINTS[k].source)
             made == Append(found.requests, HKEX_SEARCH_ENDPOINTS[k].method)
         IN  IF got # <<>> THEN [filings |-> got, requests |-> made]
             ELSE SearchLoop(responses, k + 1, [filings |-> <<>>, requests |-> made])

\* lines 937-960, with the response each endpoint would give
SearchEndpoints(company_name, responses) ==
    IF company_name = <<>> THEN [filings |-> <<>>, requests |-> <<>>]
    ELSE SearchLoop(responses, 1, [filings |-> <<>>, requests |-> <<>>])

MaxNodes == 2

JsonNodes ==
    { JsonNode(TitleProspectus, "/s1.pdf", 2),
      JsonNode(TitleAnnouncement, "s1.pdf", 3),
      JsonNode(TitlePhip, "https://cdn.example/s2.pdf", NoDate),
      JsonNode(<<>>, "t1.PDF", 1) }

Payloads == UNION { [1..n -> JsonNodes] : n \in 0..MaxNodes }

AnchorLists ==
    { <<>>,
      << Anchor("x.pdf?v=1", TitleTermSheet, TitleTermSheet, NoDate) >>,
      << Anchor("t1.PDF", <<>>, TitleAllotment, 1),
         Anchor("page.htm", TitleProspectus, TitleProspectus, 3) >> }

SearchTexts ==
    {SearchText("blank", <<>>, <<>>)}
    \cup {SearchText(shape, <<>>, anchors) : shape \in {"html", "broken"}, anchors \in AnchorLists}
    \cup {SearchText("json", payload, anchors) : payload \in Payloads, anchors \in AnchorLists}

\* an error page that links a document
ErrorPage ==
    SearchText("html", <<>>, << Anchor("page.htm", TitleProspectus, TitleProspectus, 3) >>)

Responses ==
    {Response("raised", SearchText("blank", <<>>, <<>>)),
     Response("non-2xx", ErrorPage)}
    \cup {Response("ok", text) : text \in SearchTexts}

InitSearch ==
    /\ CalOff /\ DdIdle /\ EvIdle /\ TsIdle /\ FlIdle
    /\ fn_pc = "search_hkex_filings"
    /\ fn_args \in [company_name : {<<>>, <<"A", "c", "m", "e">>},
                    responses : [1..Len(HKEX_SEARCH_ENDPOINTS) -> Responses]]
    /\ fn_result = <<>>

SearchHkexFilings ==
    /\ fn_pc = "search_hkex_filings"
    /\ fn_result' = SearchEndpoints(fn_args.company_name, fn_args.responses)
    /\ fn_pc' = "done"
    /\ UNCHANGED <<fn_args, calVars, ddVars, evVars, tsVars, flVars>>

NextSearch == SearchHkexFilings

SpecSearch == InitSearch /\ [][NextSearch]_vars

\* the filings the JSON payload of a 2xx response holds
JsonFound(k) ==
    LET response == fn_args.responses[k]
    IN  IF response.kind = "ok" /\ response.text.shape = "json"
        THEN _extract_filings_from_json(response.text.payload, HKEX_SEARCH_ENDPOINTS[k].source)
        ELSE <<>>

\* the filings the anchors of a 2xx response hold
HtmlFound(k) ==
    LET response == fn_args.responses[k]
    IN  IF response.kind = "ok"
        THEN _extract_filings_from_html(response.text, HKEX_SEARCH_ENDPOINTS[k].source)
        ELSE <<>>

Found(k) == IF JsonFound(k) # <<>> THEN JsonFound(k) ELSE HtmlFound(k)

\* C25: for a company name, search_hkex_filings queries the POST endpoint
\* first and the GET endpoint only if the first raised, was answered outside
\* 2xx or yielded no filings; of each response the JSON payload is read before
\* the anchors; the result is the filings of the first endpoint that yields
\* any, and the empty list, without raising, when neither does.
C25_EndpointOrder ==
    fn_pc \notin {"off", "search_hkex_filings"} =>
        /\ fn_pc = "done"
        /\ fn_args.company_name # <<>> =>
              /\ fn_result.requests =
                    IF Found(1) # <<>> THEN <<"post">> ELSE <<"post", "get">>
              /\ fn_result.filings =
                    IF Found(1) # <<>> THEN Found(1) ELSE Found(2)

\* the POST endpoint answered outside 2xx and the GET response holds both a
\* JSON payload with filings and anchors with other filings
C25_Witness ==
    /\ fn_pc = "done"
    /\ fn_args.company_name # <<>>
    /\ fn_args.responses[1].kind = "non-2xx"
    /\ fn_result.requests = <<"post", "get">>
    /\ JsonFound(2) # <<>>
    /\ HtmlFound(2) # <<>>
    /\ JsonFound(2) # HtmlFound(2)
    /\ fn_result.filings = JsonFound(2)

\* ---------------------------------------------------------------------------
\* the bookbuilding type tag of the records fetch_ipo_calendar deduplicates
\* ---------------------------------------------------------------------------

\* two records agree on stock code, trade date, bookbuilding start and company key
SameIdentity(a, b) ==
    /\ normalize_stock_code(a.stock_code) = normalize_stock_code(b.stock_code)
    /\ a.trade_date = b.trade_date
    /\ a.bookbuilding_start = b.bookbuilding_start
    /\ normalize_company_key(a.company) = normalize_company_key(b.company)

\* C26: every record that reaches _dedupe_calendar_items carries a
\* bookbuilding type tag in {bookbuilding, application}, and two records that
\* agree on stock code, trade date, bookbuilding start and company key and
\* whose events build_event_index both tags "bookbuilding" are one record in
\* the reconciled result.
C26_TypeTagCollapse ==
    (pc = "returned" /\ meta.source = "hkex-news") =>
        /\ \A i \in DOMAIN Merged :
             Merged[i].bookbuilding_type \in {"bookbuilding", "application"}
        /\ \A i, j \in DOMAIN result :
             (/\ i < j
              /\ SameIdentity(result[i], result[j])
              /\ BookEvent(result[i], i).type = "bookbuilding"
              /\ BookEvent(result[j], j).type = "bookbuilding") => FALSE

\* ---------------------------------------------------------------------------
\* the legacy calendar endpoint never returns an empty list
\* ---------------------------------------------------------------------------

\* the responses of the configured URLs, in order
LegacyAnswers == UNION { [1..n -> LegacyResponses] : n \in LegacyUrlCounts }

\* the first URL that is not answered 404 or with a page without records
\* (0 when there is none)
FirstDecisive(resps) ==
    IF \E k \in DOMAIN resps : resps[k] \in {"records", "error"}
    THEN CHOOSE k \in DOMAIN resps :
            /\ resps[k] \in {"records", "error"}
            /\ \A j \in 1..(k - 1) : resps[j] \notin {"records", "error"}
    ELSE 0

LegacyFailures(advisories) ==
    Cardinality({i \in DOMAIN advisories : advisories[i] = "HKEX calendar fetch failed"})

\* C27: _fetch_ipo_calendar_hkex returns the records of the first configured
\* URL that yields any, and otherwise raises: it never returns an empty list.
\* So a legacy attempt that does not deliver adds exactly one advisory
\* "HKEX calendar fetch failed" and fetch_ipo_calendar never records
\* "HKEX calendar returned empty data".
C27_LegacyNeverEmpty ==
    /\ \A resps \in LegacyAnswers :
         LET out == _fetch_ipo_calendar_hkex(resps)
             k   == FirstDecisive(resps)
         IN  /\ out.raised \/ out.recs # <<>>
             /\ ~out.raised <=> (k # 0 /\ resps[k] = "records")
    /\ \A i \in DOMAIN calls :
         calls[i].src = "legacy" => (calls[i].raised \/ calls[i].recs # <<>>)
    /\ \A i \in DOMAIN errors : errors[i] # "HKEX calendar returned empty data"
    /\ pc = "returned" =>
         /\ \A i \in DOMAIN meta.errors :
              meta.errors[i] # "HKEX calendar returned empty data"
         /\ LegacyFailures(meta.errors) = IF Raised("legacy") THEN 1 ELSE 0
    /\ (Contacted("legacy") /\ ~ReturnedRecords("legacy")) =>
         /\ Raised("legacy")
         /\ LegacyFailures(errors) = 1

\* the legacy endpoint was tried without success and the sample was returned
C27_Witness ==
    /\ pc = "returned" /\ meta.source = "sample"
    /\ Contacted("legacy") /\ ~ReturnedRecords("legacy")
    /\ LegacyFailures(meta.errors) = 1
    /\ Len(meta.errors) = 1

\* ---------------------------------------------------------------------------
\* the term sheet and the filings shown
\* ---------------------------------------------------------------------------

\* what the title search returns for a company with several dated filings
LongSearch ==
    << Filing(TitleAnnualReport, "s1.pdf", 4, "titlesearch"),
       Filing(TitleAnnouncement, "s3.pdf", 2, "titlesearch"),
       Filing(TitleProspectus, "s4.pdf", 3, "titlesearch") >>

\* records with up to two attached documents, three document links and up to
\* three search results
InitShown ==
    /\ CalIdle /\ DdIdle /\ EvIdle /\ TsIdle /\ FnIdle
    /\ fl_pc = "start"
    /\ \E documents \in SeqsUpTo({DocA, DocB}, 2),
          announcement \in {Missing, "l1.pdf"},
          prospectus \in {NoneStr, "l2.pdf"},
          allotment \in {"", "l3.pdf"} :
          fl_item = DetailsItem(Acme, documents, announcement, prospectus, allotment)
    /\ fl_search \in {SubSeq(LongSearch, 1, n) : n \in 0..Len(LongSearch)}
    /\ fl_overrides = OverridesFile("object", OverrideTable)
    /\ fl_pdfs = StoreSparse
    /\ candidates = <<>>
    /\ details = NoDetails
    /\ fl_log = <<>>

SpecShown == InitShown /\ [][NextFilings]_vars

\* C28: when fetch_ipo_details assembles its result (no override entry matched)
\* and names a term sheet, the term sheet's URL is the URL of one of the
\* filings listed in the same result.
C28_TermSheetShown ==
    (Assembled /\ details.term_sheet_url # NoneStr) =>
        \E i \in DOMAIN details.filings :
            details.filings[i].url = details.term_sheet_url

=============================================================================
